---- MODULE Spec2Model ----
(***************************************************************************)
(* Forecast design-matrix and walk-forward backtesting engine of           *)
(* realestate-intel (src/forecast).                                        *)
(*                                                                         *)
(*   SpecAnchor    the anchor selector choose_anchor_indices               *)
(*   SpecDesign    feature_loader.build_design_matrix over a fact store    *)
(*   SpecForecast  xgb_regressor.run_xgb_forecast, the iterative           *)
(*                 multi-step forecaster                                   *)
(*   SpecDiscover  build_universal_feature_specs over a fact store         *)
(*   SpecFolds     one exogenous forecast or backtest driver on a drawn    *)
(*                 store, followed to its end                              *)
(*   SpecLoad      the series loaders over a store that may hold several   *)
(*                 rows for one date                                       *)
(*   SpecBatch     run_sarimax_batch among the single-writer commands      *)
(*   SpecConcurrent  several writers recording runs at the same time       *)
(*   Spec          a single writer running live forecasts and the three    *)
(*                 walk-forward backtest drivers against forecast_runs /   *)
(*                 forecast_predictions                                    *)
(***************************************************************************)
EXTENDS Integers, Sequences, FiniteSets, TLC

VARIABLES
    \* ---- choose_anchor_indices: one call ----
    ca_pc,              \* "idle" | "call" | "ret"
    ca_variant,         \* which module's copy: "sarimax" | "exog" | "xgb"
    ca_n,               \* len(y)
    ca_horizon,
    ca_min_train_len,
    ca_max_anchors,
    ca_anchors,         \* the returned list
    \* ---- the fact store and one call of build_design_matrix ----
    fact_timeseries,    \* set of rows [metric_id, geo_id, property_type_id, date, value]
    dm_pc,              \* "idle" | "call" | "ret"
    dm_target,          \* TargetSpec
    dm_feature_specs,   \* list of FeatureSpec
    dm_min_obs,
    dm_ret,             \* what the call produced: (y, X, base_series) or the error raised
    \* ---- the run recorder's tables ----
    forecast_runs,          \* rows of forecast_runs, in insertion order
    forecast_predictions,   \* rows of forecast_predictions, in insertion order
    \* ---- one call of xgb_regressor.run_xgb_forecast ----
    fc_pc,              \* "idle" | "call" | "loop" | "record" | "done" | "raised"
    fc_args,            \* [horizon_max_months, feature_specs] as passed (None: default)
    fc_feature_specs,   \* feature_specs after the default is filled in
    fc_train,           \* what build_design_matrix returned
    fc_series,          \* series: name -> base series, extended step by step
    fc_preds,           \* preds
    fc_rows,            \* X_future of every step so far
    \* ---- the writer process: one live forecast or backtest at a time
    bt_pc,              \* "idle" | "loop" | "done" | "returned" | "raised"
    bt_driver,          \* "none" | "sarimax_live" | "sarimax" | "exog" | "xgb"
    bt_horizon,         \* --horizon of the command line
    bt_y,               \* s / y_full: the series the driver walks
    bt_X,               \* X_full (None in the univariate driver)
    bt_anchors,         \* anchors
    bt_i,               \* anchors already handled by the for loop
    bt_trace,           \* per anchor handled: idx, anchor_date, horizon_bt, the
                        \* training index, the selected columns, exog_future,
                        \* steps, the outcome and run_id
    bt_msg,             \* what the driver printed last, or the exception it ended with
    bt_forecast,        \* the get_forecast call of the anchor handled last: steps, exog
    \* ---- one call of build_universal_feature_specs
    ds_pc,              \* "idle" | "call" | "ret"
    ds_target,          \* target
    ds_ret,             \* the list returned
    \* ---- one call of a series loader
    ld_pc,              \* "idle" | "call" | "ret" | "raised"
    ld_fn,              \* "load_series_from_fact" | "load_series"
    ld_target,          \* the key asked for (metric_id, geo_id, property_type_id)
    ld_min_obs,         \* min_obs of load_series
    ld_ret,             \* the series returned, or the error raised
    \* ---- run_sarimax_batch.run_batch
    rb_run_info,        \* run_info of the target handled last ([found |-> FALSE]: None)
    rb_refreshed,       \* refreshed
    rb_skipped,         \* skipped
    \* ---- the anchor whose run row is written and whose prediction rows are not yet
    bt_pending,         \* its run id, fold and get_forecast call ([run_id |-> Null]: none)
    \* ---- writers running at the same time, each recording one run after another
    cw_pc,              \* writer -> "idle" | "insert"
    cw_model,           \* writer -> model_name of the run it is recording
    cw_run_id,          \* writer -> the run id it read
    \* ---- run_xgb_forecast: base_series as its owner sees it
    fc_base_series,
    fc_shared, 
    \* ---- run_backtest_xgb_single: base_series_full and the forecast of one anchor
    bt_base_series,     \* base_series_full, as the driver can read it back
    bt_series,          \* series of the anchor just handled, and whether it is
                        \* the object base_series_full is
    bt_rows             \* X_future of every step of that anchor

anchorVars == <<ca_pc, ca_variant, ca_n, ca_horizon, ca_min_train_len,
                ca_max_anchors, ca_anchors>>

designVars == <<fact_timeseries, dm_pc, dm_target, dm_feature_specs, dm_min_obs, dm_ret>>

recVars == <<forecast_runs, forecast_predictions>>

fcVars == <<fc_pc, fc_args, fc_feature_specs, fc_train, fc_series, fc_preds, fc_rows>>

btVars == <<bt_pc, bt_driver, bt_horizon, bt_y, bt_X, bt_anchors, bt_i, bt_trace,
            bt_msg, bt_forecast>>

dsVars == <<ds_pc, ds_target, ds_ret>>

ldVars == <<ld_pc, ld_fn, ld_target, ld_min_obs, ld_ret>>

rbVars == <<rb_run_info, rb_refreshed, rb_skipped>>

foldVars == <<bt_pending>>

cwVars == <<cw_pc, cw_model, cw_run_id>>

fcCopyVars == <<fc_base_series, fc_shared>>

btCopyVars == <<bt_base_series, bt_series, bt_rows>>

vars == <<anchorVars, designVars, recVars, fcVars, btVars, dsVars, ldVars, rbVars, foldVars, cwVars, fcCopyVars, btCopyVars>>

----------------------------------------------------------------------------
(* Bounds of the model *)

MaxLen == 86            \* longest series handed to choose_anchor_indices
MaxHorizon == 12        \* largest horizon handed to choose_anchor_indices
MaxMinTrain == 2        \* small min_train_len values tried besides the default
MaxAnchorsArg == 4      \* largest max_anchors handed to choose_anchor_indices
TicksPerMonth == 3      \* timestamps told apart within one calendar month
DesignMonths == 3       \* months a store drawn for build_design_matrix spans
MaxLag == 2             \* largest lag offset of a FeatureSpec
MaxMinObs == 2          \* largest min_obs handed to build_design_matrix
MaxFcHorizon == 3       \* largest horizon_max_months handed to run_xgb_forecast
FcExtraLen == 1         \* months of history beyond the shortest store tried
NumPreds == 1           \* different values model.predict may return at one step
MaxRuns == 2            \* a forecast or backtest starts while fewer runs are stored
MaxBtHorizon == 2       \* largest --horizon given to the writers
BtExtraLen == 2         \* months of history beyond the lag burn-in plus min_obs
MaxZeroImportance == 1  \* columns an importance ranking may leave at zero
LoadMonths == 3         \* months a store of the loader calls spans
NumWriters == 2         \* writers running at the same time
MaxConcurrentRuns == 4  \* runs the concurrent writers record between them

(* Program constants *)

DefaultMinTrainLen == 60    \* min_train_len: int = 60
DefaultMaxAnchors == 3      \* max_anchors: int = 3 ; "len(anchors) < 3"
AnchorStep == 12            \* idx -= 12
XgbMinObs == 60
LoadMinObs == 36
BacktestMinObs == 60             \* run_xgb_forecast: build_design_matrix(min_obs=60)
ExogMinObs == 60            \* run_sarimax_exog: build_design_matrix(min_obs=60)
MaxFeaturesFromXgb == 8     \* max_features_from_xgb: int = 8
FORECAST_HORIZON == 12      \* FORECAST_HORIZON = 12   # months ahead

----------------------------------------------------------------------------
(* Generic helpers *)

\* NaN / SQL NULL in a numeric column (store values are positive)
Null == -1

\* Python's None
None == "None"

Min(a, b) == IF a <= b THEN a ELSE b

Range(s) == {s[i] : i \in 1..Len(s)}

\* a function or sequence, evaluated once (its value is unchanged)
Eager(f) == f @@ <<>>

\* list.sort(): ascending insertion sort, stable
RECURSIVE InsertSorted(_, _)
InsertSorted(s, x) ==
    IF s = <<>> THEN <<x>>
    ELSE IF x < Head(s) THEN <<x>> \o s
    ELSE <<Head(s)>> \o InsertSorted(Tail(s), x)

RECURSIVE SortAscFrom(_, _)
SortAscFrom(acc, s) ==
    IF s = <<>> THEN acc ELSE SortAscFrom(InsertSorted(acc, Head(s)), Tail(s))

SortAscNoop(s) == s

SortAsc(s) == SortAscFrom(<<>>, s)

----------------------------------------------------------------------------
(* choose_anchor_indices *)

TooShortInclusive(n, horizon, min_train_len) == n <= min_train_len + horizon

\* if n < (min_train_len + horizon): return []
TooShort(n, horizon, min_train_len) == n < min_train_len + horizon

max_anchor_idx_no_horizon(last_idx, horizon) == last_idx

\* max_anchor_idx = last_idx - horizon
max_anchor_idx(last_idx, horizon) == last_idx - horizon

min_anchor_idx_off_by_one(min_train_len) == min_train_len

\* min_anchor_idx = min_train_len - 1
min_anchor_idx(min_train_len) == min_train_len - 1

StepBackOne(idx) == idx - 1

\* idx -= 12
StepBack(idx) == idx - AnchorStep

\* while idx >= min_anchor_idx and len(anchors) < max_anchors:
\*     anchors.append(idx); idx -= 12
RECURSIVE AnchorLoop(_, _, _, _)
AnchorLoop(idx, min_idx, max_anchors, anchors) ==
    IF idx >= min_idx /\ Len(anchors) < max_anchors
    THEN AnchorLoop(StepBack(idx), min_idx, max_anchors, Append(anchors, idx))
    ELSE anchors

\* backtest_xgb_single.choose_anchor_indices and its identical copy in
\* backtest_sarimax_exog_single
choose_anchor_indices(n, horizon, min_train_len, max_anchors) ==
    IF TooShort(n, horizon, min_train_len) THEN <<>>
    ELSE SortAsc(AnchorLoop(max_anchor_idx(n - 1, horizon),
                            min_anchor_idx(min_train_len), max_anchors, <<>>))

\* backtest_sarimax_single.choose_anchor_indices: no max_anchors parameter,
\* the loop stops at 3 anchors
choose_anchor_indices_sarimax(n, horizon, min_train_len) ==
    IF TooShort(n, horizon, min_train_len) THEN <<>>
    ELSE SortAsc(AnchorLoop(max_anchor_idx(n - 1, horizon),
                            min_anchor_idx(min_train_len), DefaultMaxAnchors, <<>>))

MinTrainLens == (1..MaxMinTrain) \cup {DefaultMinTrainLen}

AnchorInit ==
    /\ ca_pc = "call"
    /\ ca_variant \in {"sarimax", "exog", "xgb"}
    /\ ca_n \in 0..MaxLen
    /\ ca_horizon \in 0..MaxHorizon
    /\ ca_min_train_len \in MinTrainLens
    /\ ca_max_anchors \in
         IF ca_variant = "sarimax" THEN {DefaultMaxAnchors} ELSE 1..MaxAnchorsArg
    /\ ca_anchors = <<>>
    \* nothing else is running
    /\ fact_timeseries = {} /\ dm_pc = "idle" /\ dm_target = None
    /\ dm_feature_specs = <<>> /\ dm_min_obs = 0 /\ dm_ret = None
    /\ forecast_runs = <<>> /\ forecast_predictions = <<>>
    /\ fc_pc = "idle" /\ fc_args = None /\ fc_feature_specs = <<>> /\ fc_train = None
    /\ fc_series = None /\ fc_preds = <<>> /\ fc_rows = <<>>
    /\ bt_pc = "idle" /\ bt_driver = "none" /\ bt_horizon = 0 /\ bt_y = None /\ bt_X = None
    /\ bt_anchors = <<>> /\ bt_i = 0 /\ bt_trace = <<>> /\ bt_msg = "none" /\ bt_forecast = None
    /\ ds_pc = "idle" /\ ds_target = None /\ ds_ret = <<>>
    /\ ld_pc = "idle" /\ ld_fn = "none" /\ ld_target = None /\ ld_min_obs = 0 /\ ld_ret = None
    /\ rb_run_info = [found |-> FALSE] /\ rb_refreshed = <<>> /\ rb_skipped = <<>>
    /\ bt_pending = [run_id |-> Null]
    /\ cw_pc = <<>> /\ cw_model = <<>> /\ cw_run_id = <<>>
    /\ fc_base_series = None /\ fc_shared = FALSE
    /\ bt_base_series = None /\ bt_series = [shared |-> FALSE, series |-> <<>>] /\ bt_rows = <<>>

CallChooseAnchors ==
    /\ ca_pc = "call"
    /\ ca_variant \in {"exog", "xgb"}
    /\ ca_anchors' = choose_anchor_indices(ca_n, ca_horizon, ca_min_train_len,
                                           ca_max_anchors)
    /\ ca_pc' = "ret"
    /\ UNCHANGED <<ca_variant, ca_n, ca_horizon, ca_min_train_len, ca_max_anchors>>
    /\ UNCHANGED <<designVars, recVars, fcVars, btVars, dsVars, ldVars, rbVars, foldVars, cwVars, fcCopyVars, btCopyVars>>

CallChooseAnchorsSarimax ==
    /\ ca_pc = "call"
    /\ ca_variant = "sarimax"
    /\ ca_anchors' = choose_anchor_indices_sarimax(ca_n, ca_horizon, ca_min_train_len)
    /\ ca_pc' = "ret"
    /\ UNCHANGED <<ca_variant, ca_n, ca_horizon, ca_min_train_len, ca_max_anchors>>
    /\ UNCHANGED <<designVars, recVars, fcVars, btVars, dsVars, ldVars, rbVars, foldVars, cwVars, fcCopyVars, btCopyVars>>

AnchorNext == CallChooseAnchors \/ CallChooseAnchorsSarimax

----------------------------------------------------------------------------
(* Claims about choose_anchor_indices (checked under SpecAnchor) *)

AnchorReturned == ca_pc = "ret"

\* C1: for horizon >= 1, min_train_len >= 1 and max_anchors >= 1, every
\* returned anchor a is an index of the series with at least min_train_len
\* observations at or before it (a + 1 >= min_train_len), at least one
\* observation strictly after it, and at least `horizon` observations strictly
\* after it (n - 1 - a >= horizon).
C1_AnchorBounds ==
    (AnchorReturned /\ ca_horizon >= 1 /\ ca_min_train_len >= 1 /\ ca_max_anchors >= 1)
        => \A i \in 1..Len(ca_anchors) :
              LET a == ca_anchors[i] IN
              /\ a \in 0..(ca_n - 1)
              /\ a + 1 >= ca_min_train_len
              /\ (ca_n - 1) - a >= 1
              /\ (ca_n - 1) - a >= ca_horizon

\* a call with the default min_train_len that returned two or more anchors,
\* the earliest sitting exactly on the lower bound
C1_Witness ==
    /\ AnchorReturned /\ ca_horizon >= 1
    /\ ca_min_train_len = DefaultMinTrainLen
    /\ Len(ca_anchors) >= 2
    /\ ca_anchors[1] = ca_min_train_len - 1
    /\ ca_anchors[Len(ca_anchors)] = ca_n - 1 - ca_horizon

\* The indices last - horizon - 12*k (k = 0, 1, ...) that are
\* >= min_train_len - 1, restricted to the max_anchors largest (k < max_anchors)
ExpectedAnchorSet(n, horizon, min_train_len, max_anchors) ==
    {i \in (0 - 1)..n :
        /\ i >= min_train_len - 1
        /\ \E k \in 0..(max_anchors - 1) : i = (n - 1) - horizon - 12 * k}

IsStrictlyIncreasing(s) == \A i \in 1..(Len(s) - 1) : s[i] < s[i + 1]

\* C7: the result is, sorted ascending, exactly the indices
\* last - horizon - 12*k that are >= min_train_len - 1, limited to the
\* max_anchors largest; for n = 84, horizon = 12, min_train_len = 60,
\* max_anchors = 3 it is exactly <<59, 71>>.
C7_AnchorList ==
    AnchorReturned =>
        /\ IsStrictlyIncreasing(ca_anchors)
        /\ Range(ca_anchors) =
             ExpectedAnchorSet(ca_n, ca_horizon, ca_min_train_len, ca_max_anchors)
        /\ (ca_n = 84 /\ ca_horizon = 12 /\ ca_min_train_len = 60 /\ ca_max_anchors = 3)
              => ca_anchors = <<59, 71>>

\* the scenario of the specification: 84 observations, horizon 12
C7_Witness ==
    /\ AnchorReturned
    /\ ca_n = 84 /\ ca_horizon = 12 /\ ca_min_train_len = 60 /\ ca_max_anchors = 3
    /\ Len(ca_anchors) = 2

\* C8: consecutive anchors are exactly 12 index positions apart, the list is
\* strictly increasing and has at most max_anchors elements.
C8_AnchorSpacing ==
    AnchorReturned =>
        /\ Len(ca_anchors) <= ca_max_anchors
        /\ \A i \in 1..(Len(ca_anchors) - 1) :
              /\ ca_anchors[i] < ca_anchors[i + 1]
              /\ ca_anchors[i + 1] - ca_anchors[i] = 12

\* a returned list of three or more anchors cut off by max_anchors
C8_Witness ==
    /\ AnchorReturned
    /\ Len(ca_anchors) >= 3
    /\ Len(ca_anchors) = ca_max_anchors
    /\ ca_anchors[1] - 12 >= ca_min_train_len - 1

\* C9: the result is empty exactly when the series has fewer than
\* min_train_len + horizon observations (max_anchors >= 1); otherwise it is
\* non-empty and its largest element is last - horizon.
C9_EmptyIffTooShort ==
    (AnchorReturned /\ ca_max_anchors >= 1) =>
        /\ (ca_anchors = <<>>) <=> (ca_n < ca_min_train_len + ca_horizon)
        /\ ca_anchors # <<>> =>
              /\ ca_anchors[Len(ca_anchors)] = (ca_n - 1) - ca_horizon
              /\ \A i \in 1..Len(ca_anchors) :
                    ca_anchors[i] <= (ca_n - 1) - ca_horizon

\* the boundary: a series of exactly min_train_len + horizon observations
\* gives one anchor, one observation fewer gives none
C9_Witness ==
    /\ AnchorReturned /\ ca_horizon >= 1
    /\ \/ ca_n = ca_min_train_len + ca_horizon /\ Len(ca_anchors) = 1
       \/ ca_n = ca_min_train_len + ca_horizon - 1 /\ ca_anchors = <<>>

----------------------------------------------------------------------------
(* Dates.  A timestamp is a tick count; a calendar month holds TicksPerMonth  *)
(* ticks.  The last tick of a month is the instant                         *)
(* Period.to_timestamp(how="end") returns (23:59:59.999999999 of the last  *)
(* day), which no DATE of the store can equal; observations sit on the     *)
(* other ticks.                                                            *)

\* Timestamp.to_period("M")
to_period(d) == d \div TicksPerMonth

\* Period.to_timestamp(how="end")
to_timestamp_end(p) == p * TicksPerMonth + (TicksPerMonth - 1)

\* the date of the first observation tick of month m (e.g. the 1st of the month)
MonthStart(m) == m * TicksPerMonth

----------------------------------------------------------------------------
(* pandas Series: [index |-> sequence of dates, values |-> sequence of the   *)
(* same length]; Null is NaN / SQL NULL.                                    *)

EmptySeries == [index |-> <<>>, values |-> <<>>]

HasDate(s, d) == \E i \in 1..Len(s.index) : s.index[i] = d

ValueAtDate(s, d) == s.values[CHOOSE i \in 1..Len(s.index) : s.index[i] = d]

\* the elements of a finite set of integers in ascending order
SetToSortedSeq(S) ==
    IF S = {} THEN <<>>
    ELSE LET lo == CHOOSE x \in S : \A y \in S : x <= y
             hi == CHOOSE x \in S : \A y \in S : y <= x
         IN SelectSeq([i \in 1..(hi - lo + 1) |-> lo + i - 1], LAMBDA d : d \in S)

\* Series.shift(lag): move the values down by `lag` row positions, NaN on top
shift_same_row(values, lag) == values

shift(values, lag) ==
    [i \in 1..Len(values) |-> IF i - lag >= 1 THEN values[i - lag] ELSE Null]

\* Series.reindex(new_index): the value at each date of new_index, NaN where
\* the series has no such date
reindex_noop(s, new_index) == s

reindex(s, new_index) ==
    [index  |-> new_index,
     values |-> [k \in 1..Len(new_index) |->
                    IF HasDate(s, new_index[k]) THEN ValueAtDate(s, new_index[k])
                    ELSE Null]]

----------------------------------------------------------------------------
(* feature_loader *)

TargetSpec(m, g, pt) == [metric_id |-> m, geo_id |-> g, property_type_id |-> pt]

FeatureSpec(name, m, g, pt, lags) ==
    [name |-> name, metric_id |-> m, geo_id |-> g, property_type_id |-> pt, lags |-> lags]

\* pt_id = property_type_id if property_type_id is not None else "all"
pt_or_all(property_type_id) ==
    IF property_type_id = None THEN "all" ELSE property_type_id

\* the rows a query returns under ORDER BY date, as (date, value) pairs: one
\* entry per stored row; rows of one date follow each other (by value here:
\* SQL leaves their order open, and the index does not depend on it)
RECURSIVE OrderByDate(_, _)
OrderByDate(rows, dates) ==
    IF dates = <<>> THEN <<>>
    ELSE LET vals == SetToSortedSeq({r.value : r \in {x \in rows : x.date = Head(dates)}})
         IN [j \in 1..Len(vals) |-> <<Head(dates), vals[j]>>]
            \o OrderByDate(rows, Tail(dates))

\* con.execute(sql).fetchdf() followed by df.set_index("date")["value"]:
\* every fetched row is one entry of the series
fetch_series(rows) ==
    LET fetched == OrderByDate(rows, SetToSortedSeq({r.date : r \in rows}))
    IN [index  |-> [i \in 1..Len(fetched) |-> fetched[i][1]],
        values |-> [i \in 1..Len(fetched) |-> fetched[i][2]]]

\* load_series_from_fact: SELECT date, value ... WHERE key ORDER BY date;
\* an empty result raises ValueError
load_series_from_fact(metric_id, geo_id, property_type_id) ==
    LET pt_id == pt_or_all(property_type_id)
        rows  == {r \in fact_timeseries :
                     /\ r.metric_id = metric_id
                     /\ r.geo_id = geo_id
                     /\ r.property_type_id = pt_id}
    IN  IF rows = {} THEN [error |-> "no_data"]
        ELSE [error |-> "none", series |-> fetch_series(rows)]

\* the keys of the base_series dict, in insertion order: "y", then the spec
\* names (a repeated name keeps its first position)
RECURSIVE DictKeys(_, _)
DictKeys(keys, names) ==
    IF names = <<>> THEN keys
    ELSE DictKeys(IF Head(names) \in Range(keys) THEN keys ELSE Append(keys, Head(names)),
                  Tail(names))

BaseSeriesKeys(feature_specs) ==
    DictKeys(<<"y">>, [i \in 1..Len(feature_specs) |-> feature_specs[i].name])

\* base_series[name] after the loading loop: the last assignment wins
LoadedFor(name, target, feature_specs) ==
    LET hits == {i \in 1..Len(feature_specs) : feature_specs[i].name = name}
    IN  IF hits = {}
        THEN load_series_from_fact(target.metric_id, target.geo_id, target.property_type_id)
        ELSE LET spec == feature_specs[CHOOSE i \in hits : \A j \in hits : j <= i]
             IN load_series_from_fact(spec.metric_id, spec.geo_id, spec.property_type_id)

\* pd.concat(base_series.values(), axis=1, join="inner").index: the dates of
\* the first series that every other series has too
InnerJoinIndex(keys, base) ==
    LET first == base[keys[1]]
    IN SelectSeq(first.index, LAMBDA d : \A i \in 1..Len(keys) : HasDate(base[keys[i]], d))

\* the (name, lag) pairs of the lag columns "{name}_lag{lag}", in column order
RECURSIVE LagColumns(_)
LagColumns(feature_specs) ==
    IF feature_specs = <<>> THEN <<>>
    ELSE [i \in 1..Len(Head(feature_specs).lags) |->
              <<Head(feature_specs).name, Head(feature_specs).lags[i]>>]
         \o LagColumns(Tail(feature_specs))

\* DataFrame.dropna(): the row positions where y and every lag column are present
dropna_keep_all(n, ycol, cols, data) == [i \in 1..n |-> i]

dropna(n, ycol, cols, data) ==
    SelectSeq([i \in 1..n |-> i],
              LAMBDA i : /\ ycol[i] # Null
                         /\ \A c \in Range(cols) : data[c][i] # Null)

\* build_design_matrix(target, feature_specs, min_obs)
build_design_matrix(target, feature_specs, min_obs) ==
    LET keys   == BaseSeriesKeys(feature_specs)
        y_load == load_series_from_fact(target.metric_id, target.geo_id,
                                        target.property_type_id)
        loaded == Eager([k \in Range(keys) |-> LoadedFor(k, target, feature_specs)])
    IN
    IF y_load.error # "none" \/ \E k \in Range(keys) : loaded[k].error # "none"
    THEN [status |-> "no_data"]
    ELSE
    LET base    == Eager([k \in Range(keys) |-> loaded[k].series])
        \* 3) df_base: every base series on the common index
        idx     == InnerJoinIndex(keys, base)
        df_base == Eager([k \in Range(keys) |->
                       Eager([i \in 1..Len(idx) |-> ValueAtDate(base[k], idx[i])])])
        \* 4) lag columns
        cols    == LagColumns(feature_specs)
        feat    == Eager([c \in Range(cols) |-> Eager(shift(df_base[c[1]], c[2]))])
        \* 5) df_all = concat([y, features]).dropna()
        keep    == dropna(Len(idx), df_base["y"], cols, feat)
        all_idx == Eager([k \in 1..Len(keep) |-> idx[keep[k]]])
    IN
    IF Len(keep) < min_obs
    THEN [status |-> "not_enough", n_rows |-> Len(keep), min_obs |-> min_obs]
    ELSE [status |-> "ok",
          y      |-> [index  |-> all_idx,
                      values |-> [k \in 1..Len(keep) |-> df_base["y"][keep[k]]]],
          X      |-> [columns |-> cols, index |-> all_idx,
                      data |-> [c \in Range(cols) |->
                                  [index  |-> all_idx,
                                   values |-> [k \in 1..Len(keep) |-> feat[c][keep[k]]]]]],
          base_series |-> [k \in Range(keys) |-> reindex(base[k], all_idx)],
          base_keys   |-> keys]

----------------------------------------------------------------------------
(* One call of build_design_matrix on a drawn store *)

TargetMetric == "median_sale_price"
ExogMetric == "mortgage_rate"
Geo == "dc_city"

DesignKeys == {<<TargetMetric, Geo, "all">>, <<ExogMetric, Geo, "all">>}

\* the value the store holds for a key at a date: different for every key
\* and date, so that a value tells which observation it came from
ValueOf(metric_id, d) == (IF metric_id = TargetMetric THEN 1000 ELSE 2000) + d

\* a store: every (key, month) cell is absent, holds NULL or holds its value
StoreRows(cells) ==
    {[metric_id |-> c[1][1], geo_id |-> c[1][2], property_type_id |-> c[1][3],
      date |-> MonthStart(c[2]),
      value |-> IF cells[c] = "null" THEN Null ELSE ValueOf(c[1][1], MonthStart(c[2]))]
       : c \in {x \in DOMAIN cells : cells[x] # "absent"}}

DesignStores ==
    {StoreRows(cells) :
        cells \in [DesignKeys \X (0..(DesignMonths - 1)) -> {"absent", "null", "value"}]}

LagSchemes == {<<1>>, <<MaxLag>>, <<1, MaxLag>>}

ExogSpec(lags) == FeatureSpec("mortgage_rate__dc_city__all", ExogMetric, Geo, "all", lags)

\* the autoregressive feature: same key as the target, named after the metric
SelfLagSpec(lags) == FeatureSpec(TargetMetric, TargetMetric, Geo, None, lags)

DesignFeatureSets ==
    {<<>>} \cup {<<ExogSpec(l)>> : l \in LagSchemes}
           \cup {<<ExogSpec(l), SelfLagSpec(l)>> : l \in LagSchemes}

DesignInit ==
    /\ fact_timeseries \in DesignStores
    /\ dm_pc = "call"
    /\ dm_target = TargetSpec(TargetMetric, Geo, None)
    /\ dm_feature_specs \in DesignFeatureSets
    /\ dm_min_obs \in 0..MaxMinObs
    /\ dm_ret = None
    \* nothing else is running
    /\ ca_pc = "idle" /\ ca_variant = "none" /\ ca_n = 0 /\ ca_horizon = 0
    /\ ca_min_train_len = 0 /\ ca_max_anchors = 0 /\ ca_anchors = <<>>
    /\ forecast_runs = <<>> /\ forecast_predictions = <<>>
    /\ fc_pc = "idle" /\ fc_args = None /\ fc_feature_specs = <<>> /\ fc_train = None
    /\ fc_series = None /\ fc_preds = <<>> /\ fc_rows = <<>>
    /\ bt_pc = "idle" /\ bt_driver = "none" /\ bt_horizon = 0 /\ bt_y = None /\ bt_X = None
    /\ bt_anchors = <<>> /\ bt_i = 0 /\ bt_trace = <<>> /\ bt_msg = "none" /\ bt_forecast = None
    /\ ds_pc = "idle" /\ ds_target = None /\ ds_ret = <<>>
    /\ ld_pc = "idle" /\ ld_fn = "none" /\ ld_target = None /\ ld_min_obs = 0 /\ ld_ret = None
    /\ rb_run_info = [found |-> FALSE] /\ rb_refreshed = <<>> /\ rb_skipped = <<>>
    /\ bt_pending = [run_id |-> Null]
    /\ cw_pc = <<>> /\ cw_model = <<>> /\ cw_run_id = <<>>
    /\ fc_base_series = None /\ fc_shared = FALSE
    /\ bt_base_series = None /\ bt_series = [shared |-> FALSE, series |-> <<>>] /\ bt_rows = <<>>

\* the call returns (y, X, base_series)
BuildReturns ==
    /\ dm_pc = "call"
    /\ LET r == build_design_matrix(dm_target, dm_feature_specs, dm_min_obs)
       IN /\ r.status = "ok"
          /\ dm_ret' = r
    /\ dm_pc' = "ret"
    /\ UNCHANGED <<fact_timeseries, dm_target, dm_feature_specs, dm_min_obs>>
    /\ UNCHANGED <<anchorVars, recVars, fcVars, btVars, dsVars, ldVars, rbVars, foldVars, cwVars, fcCopyVars, btCopyVars>>

\* the call raises ValueError (no data for a key, or too few rows)
BuildRaises ==
    /\ dm_pc = "call"
    /\ LET r == build_design_matrix(dm_target, dm_feature_specs, dm_min_obs)
       IN /\ r.status # "ok"
          /\ dm_ret' = r
    /\ dm_pc' = "raised"
    /\ UNCHANGED <<fact_timeseries, dm_target, dm_feature_specs, dm_min_obs>>
    /\ UNCHANGED <<anchorVars, recVars, fcVars, btVars, dsVars, ldVars, rbVars, foldVars, cwVars, fcCopyVars, btCopyVars>>

DesignNext == BuildReturns \/ BuildRaises

----------------------------------------------------------------------------
(* Run recorder: forecast_runs / forecast_predictions *)

\* Timestamp.date(): the month-end instant falls on the month's last day
date_of(ts) == IF ts % TicksPerMonth = TicksPerMonth - 1 THEN ts - 1 ELSE ts

MaxOf(S) == CHOOSE x \in S : \A y \in S : y <= x

RunIds(runs) == {runs[i].run_id : i \in 1..Len(runs)}

max_run_id_no_increment(runs) == MaxOf({0} \cup RunIds(runs))

\* SELECT COALESCE(MAX(run_id), 0) + 1 FROM forecast_runs
next_run_id(runs) == MaxOf({0} \cup RunIds(runs)) + 1

RunRow(run_id, model_name, target, train_start, train_end, horizon_max_months, notes, is_active) ==
    [run_id |-> run_id, model_name |-> model_name, model_version |-> "v1",
     target_metric_id |-> target.metric_id, target_geo_id |-> target.geo_id,
     target_property_type_id |-> target.property_type_id, freq |-> "M",
     train_start |-> date_of(train_start), train_end |-> date_of(train_end),
     horizon_max_months |-> horizon_max_months, notes |-> notes,
     is_active |-> is_active]

\* marks every stored run of the target inactive before inserting
insert_forecast_run_deactivating(runs, model_name, target, train_start, train_end, horizon_max_months, notes) ==
    Append([i \in 1..Len(runs) |->
               IF runs[i].target_metric_id = target.metric_id
               THEN [runs[i] EXCEPT !.is_active = FALSE] ELSE runs[i]],
           RunRow(next_run_id(runs), model_name, target, train_start,
                  train_end, horizon_max_months, notes, TRUE))

\* insert_forecast_run (sarimax_redfin, sarimax_exog, xgb_regressor):
\* INSERT ... VALUES (..., TRUE) under a freshly read run id
insert_forecast_run(runs, model_name, target, train_start, train_end, horizon_max_months, notes) ==
    Append(runs, RunRow(next_run_id(runs), model_name, target, train_start,
                        train_end, horizon_max_months, notes, TRUE))

\* counts the target months from the month of last_date itself
insert_predictions_from_last_month(preds, run_id, forecast_values, last_date, horizon_max_months) ==
    preds \o [i \in 1..Min(horizon_max_months, Len(forecast_values)) |->
                 [run_id |-> run_id,
                  target_date |-> date_of(to_timestamp_end(to_period(last_date) + i - 1)),
                  horizon_steps |-> i, horizon_months |-> i,
                  y_hat |-> forecast_values[i]]]

\* insert_predictions / insert_predictions_backtest: one row per
\* zip(target_dates, forecast_values), target_dates the month ends of the
\* horizon_max_months months after last_date
insert_predictions(preds, run_id, forecast_values, last_date, horizon_max_months) ==
    preds \o [i \in 1..Min(horizon_max_months, Len(forecast_values)) |->
                 [run_id |-> run_id,
                  target_date |-> date_of(to_timestamp_end(to_period(last_date) + i)),
                  horizon_steps |-> i, horizon_months |-> i,
                  y_hat |-> forecast_values[i]]]

----------------------------------------------------------------------------
(* xgb_regressor.run_xgb_forecast: the iterative multi-step forecaster *)

\* lags=[1, 2, 3, 6, 12] of the default self-lag FeatureSpec
DefaultLags == <<1, 2, 3, 6, 12>>

\* s.reindex(s.index.union([next_date])).sort_index(): the series with
\* next_date in its index (NaN there if the date is new)
with_date(s, next_date) ==
    reindex(s, SetToSortedSeq(Range(s.index) \cup {next_date}))

\* s.loc[d] = v
set_loc(s, d, v) ==
    IF HasDate(s, d)
    THEN [index |-> s.index,
          values |-> [i \in 1..Len(s.index) |-> IF s.index[i] = d THEN v ELSE s.values[i]]]
    ELSE [index |-> Append(s.index, d), values |-> Append(s.values, v)]

carry_forward_null(s, next_date) == with_date(s, next_date)

\* last_val = s.iloc[-1]; series[name] = s.reindex(...).sort_index();
\* series[name].loc[next_date] = last_val
carry_forward(s, next_date) ==
    set_loc(with_date(s, next_date), next_date, s.values[Len(s.values)])

\* _build_single_row_design(series, feature_specs): rebuild the lagged frame
\* from the extended base series and take its last complete row
build_single_row_design(keys, series, feature_specs) ==
    LET idx     == InnerJoinIndex(keys, series)
        df_base == Eager([k \in Range(keys) |->
                       Eager([i \in 1..Len(idx) |-> ValueAtDate(series[k], idx[i])])])
        cols    == LagColumns(feature_specs)
        feat    == Eager([c \in Range(cols) |-> Eager(shift(df_base[c[1]], c[2]))])
        keep    == dropna(Len(idx), df_base["y"], cols, feat)
    IN  IF keep = <<>> THEN [status |-> "index_error"]
        ELSE [status   |-> "ok",
              last_idx |-> idx[keep[Len(keep)]],
              X_future |-> [c \in Range(cols) |-> feat[c][keep[Len(keep)]]]]

\* a value model.predict returns at a step: the fitted model is a black box;
\* its outputs are kept apart from every stored observation and from the
\* outputs of the other steps
Prediction(step, j) == 5000 + 10 * step + j

\* the store run_xgb_forecast reads: n consecutive months of both series
ForecastStore(n) ==
    {[metric_id |-> k[1], geo_id |-> k[2], property_type_id |-> k[3],
      date |-> MonthStart(m), value |-> ValueOf(k[1], MonthStart(m))]
        : k \in DesignKeys, m \in 0..(n - 1)}

ForecastLens == (XgbMinObs + 11)..(XgbMinObs + 11 + FcExtraLen)

ForecastFeatureSets ==
    {None,
     <<SelfLagSpec(<<1>>)>>,
     <<ExogSpec(<<1>>)>>,
     <<SelfLagSpec(<<1, MaxLag>>), ExogSpec(<<1>>)>>,
     <<FeatureSpec("y", TargetMetric, Geo, None, <<1>>)>>}

ForecastTarget == TargetSpec(TargetMetric, Geo, None)

ForecastInit ==
    /\ fact_timeseries \in {ForecastStore(n) : n \in ForecastLens}
    /\ forecast_runs = <<>> /\ forecast_predictions = <<>>
    /\ fc_pc = "call"
    /\ fc_args \in [horizon_max_months : 1..MaxFcHorizon,
                    feature_specs : ForecastFeatureSets]
    /\ fc_feature_specs = <<>> /\ fc_train = None /\ fc_series = None
    /\ fc_preds = <<>> /\ fc_rows = <<>>
    \* nothing else is running
    /\ ca_pc = "idle" /\ ca_variant = "none" /\ ca_n = 0 /\ ca_horizon = 0
    /\ ca_min_train_len = 0 /\ ca_max_anchors = 0 /\ ca_anchors = <<>>
    /\ dm_pc = "idle" /\ dm_target = None
    /\ dm_feature_specs = <<>> /\ dm_min_obs = 0 /\ dm_ret = None
    /\ bt_pc = "idle" /\ bt_driver = "none" /\ bt_horizon = 0 /\ bt_y = None /\ bt_X = None
    /\ bt_anchors = <<>> /\ bt_i = 0 /\ bt_trace = <<>> /\ bt_msg = "none" /\ bt_forecast = None
    /\ ds_pc = "idle" /\ ds_target = None /\ ds_ret = <<>>
    /\ ld_pc = "idle" /\ ld_fn = "none" /\ ld_target = None /\ ld_min_obs = 0 /\ ld_ret = None
    /\ rb_run_info = [found |-> FALSE] /\ rb_refreshed = <<>> /\ rb_skipped = <<>>
    /\ bt_pending = [run_id |-> Null]
    /\ cw_pc = <<>> /\ cw_model = <<>> /\ cw_run_id = <<>>
    /\ fc_base_series = None /\ fc_shared = FALSE
    /\ bt_base_series = None /\ bt_series = [shared |-> FALSE, series |-> <<>>] /\ bt_rows = <<>>

\* if feature_specs is None: the self-lags of the target, named after the metric
ForecastSpecsOf(args) ==
    IF args.feature_specs = None
    THEN <<FeatureSpec(TargetMetric, TargetMetric, Geo, None, DefaultLags)>>
    ELSE args.feature_specs

\* returns the map it was given, not a copy
make_base_series_same_object(base_series) ==
    [shared |-> TRUE, series |-> base_series]

\* _make_base_series_for_forecast: {k: v.copy() for k, v in base_series.items()},
\* a new dict of new Series objects with the same contents
make_base_series_for_forecast(base_series) ==
    [shared |-> FALSE, series |-> base_series]

\* what the owner of base_series reads in it after the forecaster has
\* rebound and written entries of `series`: the same as before, unless the
\* two are one object
SeenByOwner(base_series, shared, series) ==
    IF shared THEN series ELSE base_series

\* build_design_matrix(min_obs=60), model.fit, _make_base_series_for_forecast
XgbBuild ==
    /\ fc_pc = "call"
    /\ LET specs == ForecastSpecsOf(fc_args)
           r     == build_design_matrix(ForecastTarget, specs, XgbMinObs)
       IN /\ fc_feature_specs' = specs
          /\ IF r.status = "ok"
             THEN LET made == make_base_series_for_forecast(r.base_series)
                  IN /\ fc_train' = r
                     /\ fc_base_series' = r.base_series
                     /\ fc_series' = made.series
                     /\ fc_shared' = made.shared
                     /\ fc_pc' = "loop"
             ELSE /\ fc_train' = r
                  /\ fc_series' = None
                  /\ fc_pc' = "raised"
                  /\ UNCHANGED <<fc_base_series, fc_shared>>
    /\ UNCHANGED <<fc_args, fc_preds, fc_rows>>
    /\ UNCHANGED <<anchorVars, recVars, btVars, dsVars, ldVars, rbVars, foldVars, cwVars, btCopyVars>>
    /\ UNCHANGED <<fact_timeseries, dm_pc, dm_target, dm_feature_specs, dm_min_obs, dm_ret>>

\* one pass of "for step in range(1, horizon_max_months + 1)"
XgbStep ==
    /\ fc_pc = "loop"
    /\ Len(fc_preds) < fc_args.horizon_max_months
    /\ LET keys      == fc_train.base_keys
           step      == Len(fc_preds) + 1
           y_index   == fc_series["y"].index
           next_date == to_timestamp_end(to_period(y_index[Len(y_index)]) + 1)
           extended  == Eager([k \in Range(keys) |-> carry_forward(fc_series[k], next_date)])
           row       == build_single_row_design(keys, extended, fc_feature_specs)
       IN IF row.status # "ok"
          THEN /\ fc_pc' = "raised"
               /\ fc_series' = extended
               /\ UNCHANGED <<fc_preds, fc_rows>>
          ELSE \E j \in 1..NumPreds :
               LET y_hat == Prediction(step, j) IN
               /\ fc_preds' = Append(fc_preds, y_hat)
               /\ fc_rows' = Append(fc_rows, row.X_future)
               /\ fc_series' = [extended EXCEPT !["y"] = set_loc(@, next_date, y_hat)]
               /\ fc_pc' = "loop"
    /\ fc_base_series' = SeenByOwner(fc_base_series, fc_shared, fc_series')
    /\ UNCHANGED <<fc_args, fc_feature_specs, fc_train, fc_shared>>
    /\ UNCHANGED <<anchorVars, designVars, recVars, btVars, dsVars, ldVars, rbVars, foldVars, cwVars, btCopyVars>>

\* after the loop: insert_forecast_run, insert_predictions, return run_id
XgbRecord ==
    /\ fc_pc = "loop"
    /\ Len(fc_preds) = fc_args.horizon_max_months
    /\ LET y         == fc_train.y
           train_end == y.index[Len(y.index)]
           runs      == insert_forecast_run(forecast_runs, "xgboost", ForecastTarget,
                                            y.index[1], train_end,
                                            fc_args.horizon_max_months, "XGBoost forecast")
       IN /\ forecast_runs' = runs
          /\ forecast_predictions' =
                insert_predictions(forecast_predictions, runs[Len(runs)].run_id,
                                   fc_preds, train_end, fc_args.horizon_max_months)
    /\ fc_pc' = "done"
    /\ UNCHANGED <<fc_args, fc_feature_specs, fc_train, fc_series, fc_preds, fc_rows>>
    /\ UNCHANGED <<anchorVars, designVars, btVars, dsVars, ldVars, rbVars, foldVars, cwVars, fcCopyVars, btCopyVars>>

ForecastNext == XgbBuild \/ XgbStep \/ XgbRecord

----------------------------------------------------------------------------
(* Claims about build_design_matrix (checked under SpecDesign) *)

BuildReturned == dm_pc = "ret"

\* the series the store holds for the feature called `name`
FeatureSource(name) ==
    LET spec == dm_feature_specs[CHOOSE i \in 1..Len(dm_feature_specs) :
                                     dm_feature_specs[i].name = name]
    IN load_series_from_fact(spec.metric_id, spec.geo_id, spec.property_type_id).series

\* the date exactly L periods (months) before d
PeriodsBefore(d, L) == d - L * TicksPerMonth

\* C2: in the returned matrix the value of column (feature, L) at every
\* retained date d is the feature's base-series value at the date exactly L
\* periods before d, and is not the value at d or at any later date.
C2_NoLeakage ==
    BuildReturned =>
        \A c \in Range(dm_ret.X.columns) : \A k \in 1..Len(dm_ret.y.index) :
            LET d   == dm_ret.y.index[k]
                src == FeatureSource(c[1])
                x   == dm_ret.X.data[c].values[k]
            IN /\ HasDate(src, PeriodsBefore(d, c[2]))
               /\ x = ValueAtDate(src, PeriodsBefore(d, c[2]))
               /\ \A j \in 1..Len(src.index) : src.index[j] >= d => x # src.values[j]

\* C3: when build_design_matrix returns, y, every column of X and every
\* series of the returned base_series map (target "y" included) have the
\* same date index, of at least min_obs entries, and neither y nor X holds a
\* missing value.
C3_Alignment ==
    BuildReturned =>
        /\ \A c \in Range(dm_ret.X.columns) :
              /\ dm_ret.X.data[c].index = dm_ret.y.index
              /\ Len(dm_ret.X.data[c].values) = Len(dm_ret.y.index)
              /\ \A k \in 1..Len(dm_ret.y.index) : dm_ret.X.data[c].values[k] # Null
        /\ \A name \in Range(dm_ret.base_keys) :
              /\ dm_ret.base_series[name].index = dm_ret.y.index
              /\ Len(dm_ret.base_series[name].values) = Len(dm_ret.y.index)
        /\ "y" \in Range(dm_ret.base_keys)
        /\ Len(dm_ret.y.values) = Len(dm_ret.y.index)
        /\ Len(dm_ret.y.index) >= dm_min_obs
        /\ \A k \in 1..Len(dm_ret.y.index) : dm_ret.y.values[k] # Null

\* a matrix with lag columns and two or more rows whose burn-in rows were
\* dropped: the store holds more target dates than the matrix retains
C3_Witness ==
    /\ BuildReturned
    /\ Len(dm_ret.X.columns) >= 2
    /\ Len(dm_ret.y.index) >= 2
    /\ dm_min_obs >= 1
    /\ Cardinality({r \in fact_timeseries : r.metric_id = TargetMetric})
          > Len(dm_ret.y.index)

\* every series the call reads has rows in the store
AllSourcesStored ==
    /\ load_series_from_fact(dm_target.metric_id, dm_target.geo_id,
                             dm_target.property_type_id).error = "none"
    /\ \A i \in 1..Len(dm_feature_specs) :
          load_series_from_fact(dm_feature_specs[i].metric_id,
                                dm_feature_specs[i].geo_id,
                                dm_feature_specs[i].property_type_id).error = "none"

TargetSource ==
    load_series_from_fact(dm_target.metric_id, dm_target.geo_id,
                          dm_target.property_type_id).series

\* the dates every base series of the call has, ascending
CommonDates ==
    SetToSortedSeq({d \in Range(TargetSource.index) :
                       \A i \in 1..Len(dm_feature_specs) :
                           HasDate(FeatureSource(dm_feature_specs[i].name), d)})

\* the rows of the joined frame that are kept: the target is present, and
\* every lag column finds a present value `lag` rows further up
RetainedCount ==
    Cardinality({i \in 1..Len(CommonDates) :
        /\ ValueAtDate(TargetSource, CommonDates[i]) # Null
        /\ \A c \in Range(LagColumns(dm_feature_specs)) :
              /\ i - c[2] >= 1
              /\ ValueAtDate(FeatureSource(c[1]), CommonDates[i - c[2]]) # Null})

\* C12: for a call whose series are all stored, build_design_matrix raises
\* the insufficient-history error exactly when the number of rows retained
\* after the inner join and the removal of incomplete rows is below min_obs,
\* the error carries the retained and the required count, and otherwise the
\* call returns a matrix of exactly the retained rows.
C12_InsufficientHistory ==
    (dm_pc \in {"ret", "raised"} /\ AllSourcesStored) =>
        /\ (dm_pc = "raised") <=> (RetainedCount < dm_min_obs)
        /\ dm_pc = "raised" =>
              dm_ret = [status |-> "not_enough", n_rows |-> RetainedCount,
                        min_obs |-> dm_min_obs]
        /\ dm_pc = "ret" =>
              /\ dm_ret.status = "ok"
              /\ Len(dm_ret.y.index) = RetainedCount

\* C12, witness: a call with lag columns that kept some rows, but fewer than
\* min_obs, and raised
C12_Witness ==
    /\ dm_pc = "raised"
    /\ AllSourcesStored
    /\ dm_feature_specs # <<>>
    /\ dm_ret.status = "not_enough"
    /\ dm_ret.n_rows >= 1

\* C13: build_design_matrix never returns a matrix without rows, whatever
\* min_obs is: when every date is dropped it raises.
C13_NeverEmpty == BuildReturned => Len(dm_ret.y.index) > 0

----------------------------------------------------------------------------
(* Claims about the iterative forecaster (checked under SpecForecast) *)

\* the FeatureSpec reads the target's own series key
IsSelfLag(spec, target) ==
    /\ spec.metric_id = target.metric_id
    /\ spec.geo_id = target.geo_id
    /\ pt_or_all(spec.property_type_id) = pt_or_all(target.property_type_id)

SelfLagColumns ==
    {c \in Range(LagColumns(fc_feature_specs)) :
        \E i \in 1..Len(fc_feature_specs) :
            /\ fc_feature_specs[i].name = c[1]
            /\ IsSelfLag(fc_feature_specs[i], ForecastTarget)}

\* C4: with a self-lag feature on the target, the feature row built for step
\* k >= 2 holds the value predicted at step k-1 as its lag-1 value, and
\* generally the prediction of step k-L as its lag-L value when k > L.
C4_SelfLagSeesPredictions ==
    \A k \in 2..Len(fc_rows) : \A c \in SelfLagColumns :
        k > c[2] => fc_rows[k][c] = fc_preds[k - c[2]]

\* C4, what the code does when the self-lag feature is not called "y": the
\* feature keeps its own base series, which is carried forward flat, so every
\* lag column of it that reaches into the forecast window holds the last
\* observed value of the target.
C4_SelfLagCarriedForward ==
    \A k \in 2..Len(fc_rows) : \A c \in SelfLagColumns :
        (k > c[2] /\ c[1] # "y") =>
            fc_rows[k][c] = fc_train.y.values[Len(fc_train.y.values)]

\* the dates the forecast loop has added to a series so far
ForecastPositions(name) ==
    (Len(fc_train.base_series[name].index) + 1)..Len(fc_series[name].index)

----------------------------------------------------------------------------
(* The writers of forecast_runs: sarimax_redfin.run_sarimax_forecast and   *)
(* the three walk-forward backtest drivers, run one after another by one   *)
(* process                                                                 *)

\* insert_forecast_run_backtest (one copy per driver file, differing in
\* model_name and notes): INSERT ... VALUES (..., FALSE)
insert_forecast_run_backtest_active(runs, model_name, target, train_start, train_end, horizon_max_months, notes) ==
    Append(runs, RunRow(next_run_id(runs), model_name, target, train_start,
                        train_end, horizon_max_months, notes, TRUE))

insert_forecast_run_backtest(runs, model_name, target, train_start, train_end, horizon_max_months, notes) ==
    Append(runs, RunRow(next_run_id(runs), model_name, target, train_start,
                        train_end, horizon_max_months, notes, FALSE))

\* Period.year and Period.month of a month period (period 0: January, year 0)
year(p) == p \div 12

month(p) == (p % 12) + 1

\* the difference of the months of the year alone
months_available_same_year(anchor_date, last_date) ==
    month(to_period(last_date)) - month(to_period(anchor_date))

\* (last_period.year - anchor_period.year) * 12
\*     + (last_period.month - anchor_period.month)
months_available(anchor_date, last_date) ==
    LET anchor_period == to_period(anchor_date)
        last_period   == to_period(last_date)
    IN (year(last_period) - year(anchor_period)) * 12
           + (month(last_period) - month(anchor_period))

horizon_bt_untruncated(horizon, available) == horizon

\* horizon_bt = min(horizon, months_available)
horizon_bt(horizon, available) == Min(horizon, available)

loc_before(s, d) ==
    LET idx == SelectSeq(s.index, LAMBDA x : x < d)
    IN [index |-> idx, values |-> SubSeq(s.values, 1, Len(idx))]

\* s.loc[:anchor_date] on an ascending index: the rows up to and including it
loc_upto(s, d) ==
    LET idx == SelectSeq(s.index, LAMBDA x : x <= d)
    IN [index |-> idx, values |-> SubSeq(s.values, 1, Len(idx))]

\* backtest_sarimax_single.load_target_series: as load_series_from_fact, but
\* property_type_id goes into the query as passed
load_target_series(metric_id, geo_id, property_type_id) ==
    LET rows  == {r \in fact_timeseries :
                     /\ r.metric_id = metric_id
                     /\ r.geo_id = geo_id
                     /\ r.property_type_id = property_type_id}
    IN  IF rows = {} THEN [error |-> "no_data"]
        ELSE [error |-> "none", series |-> fetch_series(rows)]

\* sarimax_redfin.load_series(target, min_obs): raises on an empty result
\* and on fewer than min_obs rows
load_series(target, min_obs) ==
    LET l == load_series_from_fact(target.metric_id, target.geo_id,
                                   target.property_type_id)
    IN  IF l.error # "none" THEN l
        ELSE IF Len(l.series.index) < min_obs THEN [error |-> "not_enough"]
        ELSE l

\* lag_scheme=[1, 2, 3, 6, 12] of build_universal_feature_specs
lag_scheme == <<1, 2, 3, 6, 12>>

\* the series keys a store can hold, in ORDER BY metric_id, geo_id,
\* property_type_id order
OtherGeo == "md_state"

SeriesKeysOrdered ==
    <<<<TargetMetric, Geo, "-1">>,      <<TargetMetric, Geo, "all">>,
      <<TargetMetric, OtherGeo, "-1">>, <<TargetMetric, OtherGeo, "all">>,
      <<ExogMetric, Geo, "-1">>,        <<ExogMetric, Geo, "all">>,
      <<ExogMetric, OtherGeo, "-1">>,   <<ExogMetric, OtherGeo, "all">>,
      <<"permits", "dc__city", "all">>, <<"permits__dc", "city", "all">>>>

\* f"{metric_id}__{geo_id}__{pt_id}"
SeriesName(k) == k[1] \o "__" \o k[2] \o "__" \o k[3]

discover_all_series_keys_only(exclude_metrics, exclude_targets) ==
    SelectSeq(SeriesKeysOrdered,
              LAMBDA k : /\ \E r \in fact_timeseries :
                              <<r.metric_id, r.geo_id, r.property_type_id>> = k
                         /\ k \notin exclude_targets)

\* discover_all_series: SELECT DISTINCT keys, minus the excluded ones
discover_all_series(exclude_metrics, exclude_targets) ==
    SelectSeq(SeriesKeysOrdered,
              LAMBDA k : /\ \E r \in fact_timeseries :
                              <<r.metric_id, r.geo_id, r.property_type_id>> = k
                         /\ k[1] \notin exclude_metrics
                         /\ k \notin exclude_targets)

build_universal_feature_specs(target) ==
    LET all_series == discover_all_series(
                          {target.metric_id},
                          {<<target.metric_id, target.geo_id, target.property_type_id>>})
    IN [i \in 1..Len(all_series) |->
           FeatureSpec(SeriesName(all_series[i]), all_series[i][1],
                       all_series[i][2], all_series[i][3], lag_scheme)]

\* every sub-list of a list, order kept
SubLists(s) ==
    {[k \in 1..Cardinality(I) |-> s[SetToSortedSeq(I)[k]]] : I \in SUBSET (1..Len(s))}

\* feature_loader.build_design_matrix_incremental is imported by
\* backtest_xgb_single but is not part of the sources; after the
\* specification's section 4.4: the design matrix of a subset of
\* candidate_specs (here `selected_specs`, any sub-list: the selection policy
\* is pluggable; max_features=None sets no budget), failing like
\* build_design_matrix when fewer than min_obs rows remain
build_design_matrix_incremental(target, candidate_specs, min_obs, selected_specs) ==
    build_design_matrix(target, selected_specs, min_obs)

\* res.get_forecast(steps).predicted_mean.values: one value per step from a
\* fitted model that is a black box here
FittedForecast(steps) == [i \in 1..steps |-> Prediction(i, 1)]

\* the target as the command lines name it: the live forecast omits
\* --property_type_id (None, matched as 'all'), the backtests pass it
LiveTarget == TargetSpec(TargetMetric, Geo, None)

BtTarget == TargetSpec(TargetMetric, Geo, "all")

\* how the last observation of a stored series follows the one before it:
\* the next month, the same month (a second row within it), or after a
\* month without a row
TailShapes == {"monthly", "dense", "sparse"}

\* the dates of n observations: one per month, the last one as `shape` says
BtDates(n, shape) ==
    [i \in 1..n |->
        IF i < n THEN MonthStart(i - 1)
        ELSE IF shape = "dense" THEN MonthStart(n - 2) + 1
        ELSE IF shape = "sparse" THEN MonthStart(n)
        ELSE MonthStart(n - 1)]

\* a store with the target series and, if with_exog, one more series on the
\* same dates
BtStore(n, shape, with_exog) ==
    {[metric_id |-> k[1], geo_id |-> k[2], property_type_id |-> k[3],
      date |-> d, value |-> ValueOf(k[1], d)]
        : k \in {x \in DesignKeys : with_exog \/ x[1] = TargetMetric},
          d \in Range(BtDates(n, shape))}

\* stored lengths: min_train_len itself, and the lengths around the lag
\* burn-in plus min_train_len
BtLens ==
    {DefaultMinTrainLen} \cup
    (DefaultMinTrainLen + lag_scheme[Len(lag_scheme)])
        ..(DefaultMinTrainLen + lag_scheme[Len(lag_scheme)] + BtExtraLen)

Init ==
    /\ fact_timeseries \in {BtStore(n, shape, x) :
                               n \in BtLens, shape \in TailShapes, x \in BOOLEAN}
    /\ forecast_runs = <<>> /\ forecast_predictions = <<>>
    /\ bt_pc = "idle" /\ bt_driver = "none"
    /\ bt_horizon \in 1..MaxBtHorizon
    /\ bt_y = None /\ bt_X = None /\ bt_anchors = <<>> /\ bt_i = 0
    /\ bt_trace = <<>> /\ bt_msg = "none" /\ bt_forecast = [steps |-> Null, exog |-> <<>>]
    \* nothing else is running
    /\ ds_pc = "idle" /\ ds_target = None /\ ds_ret = <<>>
    /\ ca_pc = "idle" /\ ca_variant = "none" /\ ca_n = 0 /\ ca_horizon = 0
    /\ ca_min_train_len = 0 /\ ca_max_anchors = 0 /\ ca_anchors = <<>>
    /\ dm_pc = "idle" /\ dm_target = None
    /\ dm_feature_specs = <<>> /\ dm_min_obs = 0 /\ dm_ret = None
    /\ fc_pc = "idle" /\ fc_args = None /\ fc_feature_specs = <<>> /\ fc_train = None
    /\ fc_series = None /\ fc_preds = <<>> /\ fc_rows = <<>>
    /\ ld_pc = "idle" /\ ld_fn = "none" /\ ld_target = None /\ ld_min_obs = 0 /\ ld_ret = None
    /\ rb_run_info = [found |-> FALSE] /\ rb_refreshed = <<>> /\ rb_skipped = <<>>
    /\ bt_pending = [run_id |-> Null]
    /\ cw_pc = <<>> /\ cw_model = <<>> /\ cw_run_id = <<>>
    /\ fc_base_series = None /\ fc_shared = FALSE
    /\ bt_base_series = None /\ bt_series = [shared |-> FALSE, series |-> <<>>] /\ bt_rows = <<>>

\* a command starts when the process is free (and the tables are not full)
CanStart == bt_pc = "idle" /\ Len(forecast_runs) < MaxRuns

\* no get_forecast call was made (a call without exog has exog = <<>>)
NoCall == [steps |-> Null, exog |-> <<>>]

\* model.fit(...) and res.get_forecast(...) are library calls: they return,
\* or they raise
FitOutcomes == {"ok", "error"}

\* X.loc[:anchor_date]
frame_upto(X, d) ==
    [columns |-> X.columns,
     index   |-> SelectSeq(X.index, LAMBDA x : x <= d),
     data    |-> [c \in Range(X.columns) |-> loc_upto(X.data[c], d)]]

\* X_train[selected_feature_names]
take_columns(X, names) ==
    [columns |-> names, index |-> X.index,
     data |-> [c \in Range(names) |-> X.data[c]]]

first_exog_row(X) ==
    [j \in 1..Len(X.columns) |-> X.data[X.columns[j]].values[1]]

\* X.iloc[[-1]].values: the last row, one value per column
last_exog_row(X) ==
    [j \in 1..Len(X.columns) |->
        LET v == X.data[X.columns[j]].values IN v[Len(v)]]

\* np.repeat(row, n, axis=0)
np_repeat(row, n) == [i \in 1..n |-> row]

\* the columns model.feature_importances_ may rank above zero, best first; the
\* importances come out of a gradient-boosting fit on the training slice and
\* are not computed here: either nothing is informative, or up to
\* MaxZeroImportance columns are not (listed in column order)
Rankings(columns) ==
    {<<>>} \cup {r \in SubLists(columns) : Len(columns) - Len(r) <= MaxZeroImportance}

\* select_features_with_xgb: the top max_features columns by importance,
\* those of zero importance dropped
select_features_with_xgb(ranked, max_features) ==
    SubSeq(ranked, 1, Min(max_features, Len(ranked)))

\* what the for loop did with one anchor
FoldEntry(idx, anchor_date, h, outcome, run_id, fit_index, exog_index, selected) ==
    [idx |-> idx, anchor_date |-> anchor_date, horizon_bt |-> h,
     outcome |-> outcome, run_id |-> run_id,
     fit_index |-> fit_index, exog_index |-> exog_index, selected |-> selected]

\* run_sarimax_forecast, start to end
SarimaxUnivariate(target, horizon_max_months, notes, fit) ==
    LET l == load_series(target, LoadMinObs)
    IN IF l.error # "none"
       THEN /\ bt_pc' = "raised"
            /\ bt_msg' = IF l.error = "no_data" THEN "ValueError: No data found"
                         ELSE "ValueError: Not enough observations"
            /\ bt_forecast' = NoCall
            /\ UNCHANGED recVars
       ELSE IF fit = "error"
       THEN /\ bt_pc' = "raised"
            /\ bt_msg' = "fit error"
            /\ bt_forecast' = NoCall
            /\ UNCHANGED recVars
       ELSE LET y           == l.series
                train_start == y.index[1]
                train_end   == y.index[Len(y.index)]
                runs        == insert_forecast_run(forecast_runs, "sarimax", target,
                                                   train_start, train_end,
                                                   horizon_max_months, notes)
            IN /\ forecast_runs' = runs
               /\ forecast_predictions' =
                     insert_predictions(forecast_predictions, runs[Len(runs)].run_id,
                                        FittedForecast(horizon_max_months), train_end,
                                        horizon_max_months)
               /\ bt_forecast' = [steps |-> horizon_max_months, exog |-> <<>>]
               /\ bt_msg' = "Created forecast run_id"
               /\ bt_pc' = "done"

\* python -m forecast.sarimax_redfin
RunSarimaxForecast ==
    /\ CanStart
    /\ bt_driver' = "sarimax_live"
    /\ \E fit \in FitOutcomes : SarimaxUnivariate(LiveTarget, bt_horizon, None, fit)
    /\ UNCHANGED <<bt_horizon, bt_y, bt_X, bt_anchors, bt_i, bt_trace>>
    /\ UNCHANGED <<anchorVars, designVars, fcVars, dsVars, ldVars, rbVars, foldVars, cwVars, fcCopyVars, btCopyVars>>

\* feature_specs handed to run_sarimax_exog: none, or one series at a few lags
LiveExogFeatureSets == {<<>>, <<ExogSpec(<<1, 2, 3>>)>>}

\* sarimax_exog.run_sarimax_exog, start to end
RunSarimaxExog ==
    /\ CanStart
    /\ bt_driver' = "sarimax_exog_live"
    /\ \E feature_specs \in LiveExogFeatureSets, fit \in FitOutcomes :
          IF feature_specs = <<>>
          THEN /\ SarimaxUnivariate(BtTarget, bt_horizon,
                                    "SARIMAX (no exog, delegated from sarimax_exog)", fit)
               /\ UNCHANGED <<bt_y, bt_X>>
          ELSE \E r \in {build_design_matrix(BtTarget, feature_specs, ExogMinObs)} :
                  IF r.status # "ok"
                  THEN /\ bt_pc' = "raised"
                       /\ bt_msg' = IF r.status = "no_data" THEN "ValueError: No data found"
                                    ELSE "ValueError: Not enough observations"
                       /\ bt_forecast' = NoCall
                       /\ UNCHANGED <<bt_y, bt_X, recVars>>
                  ELSE IF fit = "error"
                  THEN /\ bt_pc' = "raised"
                       /\ bt_msg' = "fit error"
                       /\ bt_forecast' = NoCall
                       /\ bt_y' = r.y /\ bt_X' = r.X
                       /\ UNCHANGED recVars
                  ELSE LET train_start == r.y.index[1]
                           train_end   == r.y.index[Len(r.y.index)]
                           exog_future == np_repeat(last_exog_row(r.X), bt_horizon)
                           runs == insert_forecast_run(
                                       forecast_runs, "sarimax_exog", BtTarget,
                                       train_start, train_end, bt_horizon,
                                       "SARIMAX with exogenous regressors")
                       IN /\ bt_y' = r.y /\ bt_X' = r.X
                          /\ bt_forecast' = [steps |-> bt_horizon, exog |-> exog_future]
                          /\ forecast_runs' = runs
                          /\ forecast_predictions' =
                                insert_predictions(forecast_predictions,
                                                   runs[Len(runs)].run_id,
                                                   FittedForecast(bt_horizon),
                                                   train_end, bt_horizon)
                          /\ bt_msg' = "Created forecast run_id"
                          /\ bt_pc' = "done"
    /\ UNCHANGED <<bt_horizon, bt_anchors, bt_i, bt_trace>>
    /\ UNCHANGED <<anchorVars, designVars, fcVars, dsVars, ldVars, rbVars, foldVars, cwVars, fcCopyVars, btCopyVars>>

\* run_backtest_sarimax_single up to the for loop
SarimaxBacktestStart ==
    /\ CanStart
    /\ bt_driver' = "sarimax"
    /\ LET l == load_target_series(BtTarget.metric_id, BtTarget.geo_id,
                                   BtTarget.property_type_id)
       IN IF l.error # "none"
          THEN /\ bt_pc' = "raised"
               /\ bt_msg' = "ValueError: No data"
               /\ bt_y' = None /\ bt_anchors' = <<>>
          ELSE LET anchors == choose_anchor_indices_sarimax(
                                  Len(l.series.index), bt_horizon, DefaultMinTrainLen)
               IN /\ bt_y' = l.series
                  /\ bt_anchors' = anchors
                  /\ bt_pc' = IF anchors = <<>> THEN "returned" ELSE "loop"
                  /\ bt_msg' = IF anchors = <<>>
                               THEN "Not enough history to run backtests."
                               ELSE "Found anchors"
    /\ bt_X' = None /\ bt_i' = 0 /\ bt_trace' = <<>> /\ bt_forecast' = NoCall
    /\ UNCHANGED bt_horizon
    /\ UNCHANGED <<anchorVars, designVars, recVars, fcVars, dsVars, ldVars, rbVars, foldVars, cwVars, fcCopyVars, btCopyVars>>

\* one pass of "for idx in anchors" of the two SARIMAX drivers: the training
\* slice and the realized horizon, then either "continue", or fit and
\* forecast (an exception of either leaves the loop and the driver: there is
\* no handler) and record the run.  `selected` is selected_feature_names;
\* the univariate driver has no X_full and no exog.
\* no anchor is between its two inserts
NoFold == [run_id |-> Null]

BacktestFold(model_name, notes, selected, fit) ==
    LET idx         == bt_anchors[bt_i + 1]
        last_date   == bt_y.index[Len(bt_y.index)]
        anchor_date == bt_y.index[idx + 1]
        y_train     == loc_upto(bt_y, anchor_date)
        with_exog   == bt_driver = "exog"
        X_train_sel == IF with_exog
                       THEN take_columns(frame_upto(bt_X, anchor_date), selected)
                       ELSE None
        exog_index  == IF with_exog THEN X_train_sel.index ELSE <<>>
        h           == horizon_bt(bt_horizon, months_available(anchor_date, last_date))
    IN IF h <= 0
       THEN /\ bt_trace' = Append(bt_trace, FoldEntry(idx, anchor_date, h, "skipped",
                                                      Null, <<>>, <<>>, <<>>))
            /\ bt_msg' = "No future months available for this anchor; skipping."
            /\ bt_forecast' = NoCall
            /\ bt_pc' = "loop" /\ bt_i' = bt_i + 1
            /\ UNCHANGED <<recVars, bt_pending>>
       ELSE IF fit = "error"
       THEN /\ bt_trace' = Append(bt_trace, FoldEntry(idx, anchor_date, h, "raised",
                                                      Null, y_train.index, exog_index,
                                                      selected))
            /\ bt_msg' = "fit error"
            /\ bt_forecast' = NoCall
            /\ bt_pc' = "raised" /\ bt_i' = bt_i
            /\ UNCHANGED <<recVars, bt_pending>>
       ELSE LET runs   == insert_forecast_run_backtest(forecast_runs, model_name, BtTarget,
                                                       y_train.index[1], anchor_date,
                                                       h, notes)
                run_id == runs[Len(runs)].run_id
            IN /\ forecast_runs' = runs
               /\ bt_pending' =
                     [run_id   |-> run_id,
                      fold     |-> FoldEntry(idx, anchor_date, h, "recorded", run_id,
                                             y_train.index, exog_index, selected),
                      forecast |-> [steps |-> h,
                                    exog  |-> IF with_exog
                                              THEN np_repeat(last_exog_row(X_train_sel), h)
                                              ELSE <<>>]]
               /\ bt_msg' = "Training length, backtest horizon"
               /\ bt_pc' = "insert_predictions"
               /\ UNCHANGED <<forecast_predictions, bt_trace, bt_i, bt_forecast>>

\* the rest of the pass: insert_predictions_backtest under the run id just
\* returned, then the summary entry
BacktestInsertPredictions ==
    /\ bt_pc = "insert_predictions"
    /\ forecast_predictions' =
          insert_predictions(forecast_predictions, bt_pending.run_id,
                             FittedForecast(bt_pending.forecast.steps),
                             bt_pending.fold.anchor_date, bt_pending.fold.horizon_bt)
    /\ bt_trace' = Append(bt_trace, bt_pending.fold)
    /\ bt_forecast' = bt_pending.forecast
    /\ bt_pending' = NoFold
    /\ bt_msg' = "Created backtest run_id"
    /\ bt_pc' = "loop" /\ bt_i' = bt_i + 1
    /\ UNCHANGED <<bt_driver, bt_horizon, bt_y, bt_X, bt_anchors>>
    /\ UNCHANGED <<forecast_runs, anchorVars, designVars, fcVars, dsVars, ldVars, rbVars, cwVars, fcCopyVars, btCopyVars>>

SarimaxBacktestAnchor ==
    /\ bt_pc = "loop" /\ bt_driver = "sarimax"
    /\ bt_i < Len(bt_anchors)
    /\ \E fit \in FitOutcomes :
          BacktestFold("sarimax_backtest", "SARIMAX backtest anchor", <<>>, fit)
    /\ UNCHANGED <<bt_driver, bt_horizon, bt_y, bt_X, bt_anchors>>
    /\ UNCHANGED <<anchorVars, designVars, fcVars, dsVars, ldVars, rbVars, cwVars, fcCopyVars, btCopyVars>>

\* run_backtest_sarimax_exog_single up to the for loop; the ValueError of
\* build_design_matrix is not caught
ExogBacktestStart ==
    /\ CanStart
    /\ bt_driver' = "exog"
    /\ LET feature_specs == build_universal_feature_specs(BtTarget)
       IN IF feature_specs = <<>>
          THEN /\ bt_pc' = "returned"
               /\ bt_msg' = "No default feature specs defined for this target; nothing to do."
               /\ bt_y' = None /\ bt_X' = None /\ bt_anchors' = <<>>
          ELSE \E r \in {build_design_matrix(BtTarget, feature_specs, BacktestMinObs)} :
                  IF r.status # "ok"
                  THEN /\ bt_pc' = "raised"
                       /\ bt_msg' = IF r.status = "no_data" THEN "ValueError: No data found"
                                    ELSE "ValueError: Not enough observations"
                       /\ bt_y' = None /\ bt_X' = None /\ bt_anchors' = <<>>
                  ELSE LET anchors == choose_anchor_indices(
                                          Len(r.y.index), bt_horizon,
                                          DefaultMinTrainLen, DefaultMaxAnchors)
                       IN /\ bt_y' = r.y /\ bt_X' = r.X
                          /\ bt_anchors' = anchors
                          /\ bt_pc' = IF anchors = <<>> THEN "returned" ELSE "loop"
                          /\ bt_msg' = IF anchors = <<>>
                                       THEN "Not enough history to run backtests."
                                       ELSE "Found anchors"
    /\ bt_i' = 0 /\ bt_trace' = <<>> /\ bt_forecast' = NoCall
    /\ UNCHANGED bt_horizon
    /\ UNCHANGED <<anchorVars, designVars, recVars, fcVars, dsVars, ldVars, rbVars, foldVars, cwVars, fcCopyVars, btCopyVars>>

\* one pass of the loop of run_backtest_sarimax_exog_single
\* (use_xgb_feature_selection=True, the default): the features are selected
\* anew from this anchor's training slice; if none is informative, all are
\* used
ExogBacktestAnchor ==
    /\ bt_pc = "loop" /\ bt_driver = "exog"
    /\ bt_i < Len(bt_anchors)
    /\ \E ranked \in Rankings(bt_X.columns), fit \in FitOutcomes :
          LET top == select_features_with_xgb(ranked, MaxFeaturesFromXgb)
              selected_feature_names == IF top = <<>> THEN bt_X.columns ELSE top
          IN BacktestFold("sarimax_exog_backtest", "SARIMAX-exog backtest anchor",
                          selected_feature_names, fit)
    /\ UNCHANGED <<bt_driver, bt_horizon, bt_y, bt_X, bt_anchors>>
    /\ UNCHANGED <<anchorVars, designVars, fcVars, dsVars, ldVars, rbVars, cwVars, fcCopyVars, btCopyVars>>

\* no forecast is under way
NoSeries == [shared |-> FALSE, series |-> <<>>]

\* _truncate_base_series_to_anchor: out[k] = s.loc[:anchor_date].copy() in a
\* new dict
truncate_base_series_to_anchor(base_series, anchor_date) ==
    [shared |-> FALSE,
     series |-> [k \in DOMAIN base_series |-> loc_upto(base_series[k], anchor_date)]]

\* run_backtest_xgb_single up to the for loop; a ValueError of the build is
\* caught and the driver returns
XgbBacktestStart ==
    /\ CanStart
    /\ bt_driver' = "xgb"
    /\ LET candidate_specs == build_universal_feature_specs(BtTarget)
       IN IF candidate_specs = <<>>
          THEN /\ bt_pc' = "returned"
               /\ bt_msg' = "No candidate features; skipping XGB backtest."
               /\ bt_y' = None /\ bt_X' = None /\ bt_anchors' = <<>>
               /\ bt_base_series' = None
          ELSE \E selected_specs \in SubLists(candidate_specs) :
               \E r \in {build_design_matrix_incremental(BtTarget, candidate_specs,
                                                         BacktestMinObs, selected_specs)} :
                  IF r.status # "ok"
                  THEN /\ bt_pc' = "returned"
                       /\ bt_msg' = "Incremental design matrix build failed"
                       /\ bt_y' = None /\ bt_X' = None /\ bt_anchors' = <<>>
                       /\ bt_base_series' = None
                  ELSE LET anchors == choose_anchor_indices(
                                          Len(r.y.index), bt_horizon,
                                          DefaultMinTrainLen, DefaultMaxAnchors)
                       IN /\ bt_y' = r.y /\ bt_X' = r.X
                          /\ bt_base_series' = r.base_series
                          /\ bt_anchors' = anchors
                          /\ bt_pc' = IF anchors = <<>> THEN "returned" ELSE "loop"
                          /\ bt_msg' = IF anchors = <<>>
                                       THEN "Not enough history to run backtests."
                                       ELSE "Found anchors"
    /\ bt_i' = 0 /\ bt_trace' = <<>> /\ bt_forecast' = NoCall
    /\ bt_series' = NoSeries /\ bt_rows' = <<>>
    /\ UNCHANGED bt_horizon
    /\ UNCHANGED <<anchorVars, designVars, recVars, fcVars, dsVars, ldVars, rbVars, foldVars, cwVars, fcCopyVars>>

\* one pass of "for idx in anchors" of run_backtest_xgb_single: the training
\* slice and the realized horizon, then either "continue" or the fit and the
\* first forecast step, whose _build_single_row_design(series, feature_specs)
\* names a variable the function never binds (selected_specs is what the
\* build returned): NameError, nothing is recorded and the driver ends
XgbBacktestAnchor ==
    /\ bt_pc = "loop" /\ bt_driver = "xgb"
    /\ bt_i < Len(bt_anchors)
    /\ \E fit \in FitOutcomes :
       LET idx         == bt_anchors[bt_i + 1]
           last_date   == bt_y.index[Len(bt_y.index)]
           anchor_date == bt_y.index[idx + 1]
           y_train     == loc_upto(bt_y, anchor_date)
           X_train     == frame_upto(bt_X, anchor_date)
           h           == horizon_bt(bt_horizon, months_available(anchor_date, last_date))
       IN IF h <= 0
          THEN /\ bt_trace' = Append(bt_trace, FoldEntry(idx, anchor_date, h, "skipped",
                                                         Null, <<>>, <<>>, <<>>))
               /\ bt_msg' = "No future months available for this anchor; skipping."
               /\ bt_pc' = "loop" /\ bt_i' = bt_i + 1
               /\ UNCHANGED <<bt_base_series, bt_series, bt_rows>>
          ELSE /\ bt_trace' = Append(bt_trace, FoldEntry(idx, anchor_date, h, "raised",
                                                         Null, y_train.index,
                                                         X_train.index,
                                                         X_train.columns))
               /\ bt_msg' = IF fit = "error" THEN "fit error"
                            ELSE "NameError: name 'feature_specs' is not defined"
               /\ bt_pc' = "raised" /\ bt_i' = bt_i
               /\ IF fit = "error"
                  THEN UNCHANGED <<bt_base_series, bt_series, bt_rows>>
                  ELSE \* series = _truncate_base_series_to_anchor(...); step 1:
                       \* next_date and the carry-forward of every series
                       LET truncated == truncate_base_series_to_anchor(bt_base_series,
                                                                      anchor_date)
                           y_index   == truncated.series["y"].index
                           next_date == to_timestamp_end(
                                            to_period(y_index[Len(y_index)]) + 1)
                           extended  == [k \in DOMAIN truncated.series |->
                                            carry_forward(truncated.series[k], next_date)]
                       IN /\ bt_series' = [shared |-> truncated.shared,
                                           series |-> extended]
                          /\ bt_base_series' = SeenByOwner(bt_base_series,
                                                           truncated.shared, extended)
                          /\ bt_rows' = <<>>
    /\ bt_forecast' = NoCall
    /\ UNCHANGED <<bt_driver, bt_horizon, bt_y, bt_X, bt_anchors>>
    /\ UNCHANGED <<anchorVars, designVars, recVars, fcVars, dsVars, ldVars, rbVars, foldVars, cwVars, fcCopyVars>>

\* after the loop: the summary is printed and the driver returns
BacktestSummary ==
    /\ bt_pc = "loop"
    /\ bt_i = Len(bt_anchors)
    /\ bt_pc' = "done"
    /\ bt_msg' = "Summary"
    /\ UNCHANGED <<bt_driver, bt_horizon, bt_y, bt_X, bt_anchors, bt_i, bt_trace,
                   bt_forecast>>
    /\ UNCHANGED <<anchorVars, designVars, recVars, fcVars, dsVars, ldVars, rbVars, foldVars, cwVars, fcCopyVars, btCopyVars>>

\* the command ends; its local state goes with it
ProcessExit ==
    /\ bt_pc \in {"done", "returned", "raised"}
    /\ bt_pc' = "idle" /\ bt_driver' = "none"
    /\ bt_y' = None /\ bt_X' = None /\ bt_anchors' = <<>> /\ bt_i' = 0
    /\ bt_trace' = <<>> /\ bt_msg' = "none" /\ bt_forecast' = NoCall
    /\ bt_base_series' = None /\ bt_series' = NoSeries /\ bt_rows' = <<>>
    /\ UNCHANGED bt_horizon
    /\ UNCHANGED <<anchorVars, designVars, recVars, fcVars, dsVars, ldVars, rbVars, foldVars, cwVars, fcCopyVars>>

Next ==
    \/ RunSarimaxForecast
    \/ SarimaxBacktestStart \/ SarimaxBacktestAnchor \/ BacktestInsertPredictions
    \/ ExogBacktestStart \/ ExogBacktestAnchor
    \/ XgbBacktestStart \/ XgbBacktestAnchor
    \/ BacktestSummary
    \/ ProcessExit

----------------------------------------------------------------------------
(* One command on a drawn store: an exogenous live forecast or one of the  *)
(* backtest drivers, followed to its end                                   *)

\* stored lengths: those of Init, and the shortest one that leaves two
\* anchors after the lag burn-in
FoldLens ==
    BtLens \cup {DefaultMinTrainLen + lag_scheme[Len(lag_scheme)] + AnchorStep + 1}

FoldsInit ==
    /\ fact_timeseries \in {BtStore(n, shape, x) :
                               n \in FoldLens, shape \in TailShapes, x \in BOOLEAN}
    /\ forecast_runs = <<>> /\ forecast_predictions = <<>>
    /\ bt_pc = "idle" /\ bt_driver = "none"
    /\ bt_horizon \in 1..MaxBtHorizon
    /\ bt_y = None /\ bt_X = None /\ bt_anchors = <<>> /\ bt_i = 0
    /\ bt_trace = <<>> /\ bt_msg = "none" /\ bt_forecast = [steps |-> Null, exog |-> <<>>]
    \* nothing else is running
    /\ ds_pc = "idle" /\ ds_target = None /\ ds_ret = <<>>
    /\ ca_pc = "idle" /\ ca_variant = "none" /\ ca_n = 0 /\ ca_horizon = 0
    /\ ca_min_train_len = 0 /\ ca_max_anchors = 0 /\ ca_anchors = <<>>
    /\ dm_pc = "idle" /\ dm_target = None
    /\ dm_feature_specs = <<>> /\ dm_min_obs = 0 /\ dm_ret = None
    /\ fc_pc = "idle" /\ fc_args = None /\ fc_feature_specs = <<>> /\ fc_train = None
    /\ fc_series = None /\ fc_preds = <<>> /\ fc_rows = <<>>
    /\ ld_pc = "idle" /\ ld_fn = "none" /\ ld_target = None /\ ld_min_obs = 0 /\ ld_ret = None
    /\ rb_run_info = [found |-> FALSE] /\ rb_refreshed = <<>> /\ rb_skipped = <<>>
    /\ bt_pending = [run_id |-> Null]
    /\ cw_pc = <<>> /\ cw_model = <<>> /\ cw_run_id = <<>>
    /\ fc_base_series = None /\ fc_shared = FALSE
    /\ bt_base_series = None /\ bt_series = [shared |-> FALSE, series |-> <<>>] /\ bt_rows = <<>>

FoldsNext ==
    \/ RunSarimaxExog
    \/ SarimaxBacktestStart \/ SarimaxBacktestAnchor \/ BacktestInsertPredictions
    \/ ExogBacktestStart \/ ExogBacktestAnchor
    \/ XgbBacktestStart \/ XgbBacktestAnchor
    \/ BacktestSummary

----------------------------------------------------------------------------
(* One call of build_universal_feature_specs on a drawn store *)

\* a store holding one observation of each key of `keys`
DiscoverStore(keys) ==
    {[metric_id |-> k[1], geo_id |-> k[2], property_type_id |-> k[3],
      date |-> MonthStart(0), value |-> ValueOf(k[1], MonthStart(0))] : k \in keys}

DiscoverInit ==
    /\ fact_timeseries \in {DiscoverStore(keys) : keys \in SUBSET Range(SeriesKeysOrdered)}
    /\ ds_pc = "call"
    /\ ds_target \in {TargetSpec(TargetMetric, Geo, pt) : pt \in {None, "all", "-1"}}
    /\ ds_ret = <<>>
    \* nothing else is running
    /\ ca_pc = "idle" /\ ca_variant = "none" /\ ca_n = 0 /\ ca_horizon = 0
    /\ ca_min_train_len = 0 /\ ca_max_anchors = 0 /\ ca_anchors = <<>>
    /\ dm_pc = "idle" /\ dm_target = None
    /\ dm_feature_specs = <<>> /\ dm_min_obs = 0 /\ dm_ret = None
    /\ forecast_runs = <<>> /\ forecast_predictions = <<>>
    /\ fc_pc = "idle" /\ fc_args = None /\ fc_feature_specs = <<>> /\ fc_train = None
    /\ fc_series = None /\ fc_preds = <<>> /\ fc_rows = <<>>
    /\ bt_pc = "idle" /\ bt_driver = "none" /\ bt_horizon = 0 /\ bt_y = None /\ bt_X = None
    /\ bt_anchors = <<>> /\ bt_i = 0 /\ bt_trace = <<>> /\ bt_msg = "none" /\ bt_forecast = None
    /\ ld_pc = "idle" /\ ld_fn = "none" /\ ld_target = None /\ ld_min_obs = 0 /\ ld_ret = None
    /\ rb_run_info = [found |-> FALSE] /\ rb_refreshed = <<>> /\ rb_skipped = <<>>
    /\ bt_pending = [run_id |-> Null]
    /\ cw_pc = <<>> /\ cw_model = <<>> /\ cw_run_id = <<>>
    /\ fc_base_series = None /\ fc_shared = FALSE
    /\ bt_base_series = None /\ bt_series = [shared |-> FALSE, series |-> <<>>] /\ bt_rows = <<>>

\* the call returns its list (no path of it raises)
CallDiscover ==
    /\ ds_pc = "call"
    /\ ds_ret' = build_universal_feature_specs(ds_target)
    /\ ds_pc' = "ret"
    /\ UNCHANGED ds_target
    /\ UNCHANGED <<anchorVars, designVars, recVars, fcVars, btVars, ldVars, rbVars, foldVars, cwVars, fcCopyVars, btCopyVars>>

DiscoverNext == CallDiscover

----------------------------------------------------------------------------
(* Claims about feature discovery (checked under SpecDiscover) *)

StoredKeys == {<<r.metric_id, r.geo_id, r.property_type_id>> : r \in fact_timeseries}

\* the key the target's series is stored under
TargetKey(target) ==
    <<target.metric_id, target.geo_id, pt_or_all(target.property_type_id)>>

KeyOfSpec(spec) == <<spec.metric_id, spec.geo_id, pt_or_all(spec.property_type_id)>>

\* C14: the list returned holds exactly one FeatureSpec for every key stored
\* other than the target's own key, each with the same lag scheme; a series
\* of the target's metric for another geography or property type is among
\* them.
C14_OnePerOtherKey ==
    ds_pc = "ret" =>
        /\ {KeyOfSpec(ds_ret[i]) : i \in 1..Len(ds_ret)}
              = StoredKeys \ {TargetKey(ds_target)}
        /\ \A i, j \in 1..Len(ds_ret) :
              KeyOfSpec(ds_ret[i]) = KeyOfSpec(ds_ret[j]) => i = j
        /\ \A i \in 1..Len(ds_ret) : ds_ret[i].lags = lag_scheme

\* C14, what the code returns: one FeatureSpec for every stored key of a
\* metric other than the target's
C14_OnePerOtherMetricKey ==
    ds_pc = "ret" =>
        /\ {KeyOfSpec(ds_ret[i]) : i \in 1..Len(ds_ret)}
              = {k \in StoredKeys : k[1] # ds_target.metric_id}
        /\ \A i, j \in 1..Len(ds_ret) :
              KeyOfSpec(ds_ret[i]) = KeyOfSpec(ds_ret[j]) => i = j
        /\ \A i \in 1..Len(ds_ret) : ds_ret[i].lags = lag_scheme

\* C15: the list returned never holds a FeatureSpec of the target's own key
\* (the key with 'all' when the target has no property_type_id), and it is
\* the empty list when the store holds no other series; the call always
\* returns.
C15_TargetNeverAFeature ==
    /\ ds_pc = "ret" =>
          /\ \A i \in 1..Len(ds_ret) : KeyOfSpec(ds_ret[i]) # TargetKey(ds_target)
          /\ StoredKeys \subseteq {TargetKey(ds_target)} => ds_ret = <<>>
    /\ ds_pc = "call" => ENABLED CallDiscover

\* C15, witness: a target without property_type_id, stored under 'all',
\* with other series beside it, and a non-empty list returned
C15_Witness ==
    /\ ds_pc = "ret"
    /\ ds_target.property_type_id = None
    /\ TargetKey(ds_target) \in StoredKeys
    /\ ds_ret # <<>>

\* C15, the other case: only the target is stored and the list is empty
C15_EmptyReached ==
    /\ ds_pc = "ret"
    /\ StoredKeys = {TargetKey(ds_target)}
    /\ ds_ret = <<>>

----------------------------------------------------------------------------
(* Claims about the writers (checked under Spec and SpecFolds) *)

BacktestModelNames == {"sarimax_backtest", "sarimax_exog_backtest", "xgb_backtest"}

RunOf(run_id) ==
    forecast_runs[CHOOSE i \in 1..Len(forecast_runs) : forecast_runs[i].run_id = run_id]

\* C5: every run a walk-forward backtest driver has recorded (the runs stored
\* under a backtest model name, and the runs the driver now running lists for
\* its anchors) has is_active = FALSE, in every state that follows the
\* recording, whatever forecasts and backtests run afterwards.
C5_BacktestRunsInactive ==
    /\ \A i \in 1..Len(forecast_runs) :
          forecast_runs[i].model_name \in BacktestModelNames
              => forecast_runs[i].is_active = FALSE
    /\ \A k \in 1..Len(bt_trace) :
          bt_trace[k].run_id # Null
              => /\ bt_trace[k].run_id \in RunIds(forecast_runs)
                 /\ RunOf(bt_trace[k].run_id).is_active = FALSE

\* C5, witness: a backtest run was recorded, a live forecast (active) was
\* recorded after it, and the backtest run is still there
C5_Witness ==
    \E i, j \in 1..Len(forecast_runs) :
        /\ i < j
        /\ forecast_runs[i].model_name \in BacktestModelNames
        /\ forecast_runs[j].model_name = "sarimax"
        /\ forecast_runs[j].is_active = TRUE

\* the final date of the stored target series
TargetFinalDate ==
    MaxOf({r.date : r \in {x \in fact_timeseries : x.metric_id = TargetMetric}})

PredictionsOf(run_id) ==
    SelectSeq(forecast_predictions, LAMBDA r : r.run_id = run_id)

\* what the driver did with each anchor it has handled so far
FoldsAsClaimed ==
    \A k \in 1..Len(bt_trace) :
        LET e    == bt_trace[k]
            dist == to_period(TargetFinalDate) - to_period(e.anchor_date)
        IN /\ e.horizon_bt = Min(bt_horizon, dist)
           /\ e.horizon_bt <= 0 =>
                 /\ e.run_id = Null
                 /\ \A i \in 1..Len(forecast_runs) :
                       forecast_runs[i].model_name \in BacktestModelNames
                           => forecast_runs[i].train_end # date_of(e.anchor_date)
           /\ e.run_id # Null =>
                 /\ e.horizon_bt > 0
                 /\ e.run_id \in RunIds(forecast_runs)
                 /\ RunOf(e.run_id).horizon_max_months = e.horizon_bt
                 /\ RunOf(e.run_id).train_end = date_of(e.anchor_date)
                 /\ Len(PredictionsOf(e.run_id)) = e.horizon_bt
           /\ (e.outcome = "recorded") <=> (e.run_id # Null)
           /\ (e.horizon_bt > 0 /\ e.outcome # "raised") => e.run_id # Null

\* a series ending 5 months after the anchor, horizon 12 requested
ExampleFiveOfTwelve ==
    \A a \in 0..MaxLen :
        horizon_bt(12, months_available(MonthStart(a), MonthStart(a + 5))) = 5

\* C6: for every anchor a backtest driver has handled, the realized horizon
\* is min(requested horizon, whole months from the anchor's date to the final
\* date of the target series); an anchor with realized horizon <= 0 has no
\* run (none is listed for it and no backtest run ends its training at that
\* date); a run recorded for an anchor carries the realized horizon, trains
\* up to the anchor and has one prediction per realized month.  The claim's
\* example: 5 months after the anchor and horizon 12 give exactly 5.
C6_HorizonTruncation == FoldsAsClaimed /\ ExampleFiveOfTwelve

\* C6, witness: an anchor with fewer months after it than requested got a run
\* with the shorter horizon
C6_Witness ==
    \E k \in 1..Len(bt_trace) :
        /\ bt_trace[k].run_id # Null
        /\ 0 < bt_trace[k].horizon_bt
        /\ bt_trace[k].horizon_bt < bt_horizon

\* C6, the other case: an anchor in the final month was skipped, and the same
\* driver recorded a run for an earlier anchor
C6_SkipReached ==
    \E k, m \in 1..Len(bt_trace) :
        /\ bt_trace[k].horizon_bt <= 0
        /\ bt_trace[m].run_id # Null

\* C10: in the order the runs were recorded, run ids strictly increase: each
\* new id is greater than every id recorded before it, so no two runs share
\* an id.
C10_RunIdsIncreasing ==
    \A i, j \in 1..Len(forecast_runs) :
        i < j => forecast_runs[i].run_id < forecast_runs[j].run_id

\* C10, witness: at least three runs, live forecasts and backtest runs among
\* them
C10_Witness ==
    /\ Len(forecast_runs) >= 3
    /\ \E i \in 1..Len(forecast_runs) : forecast_runs[i].model_name = "sarimax"
    /\ \E i \in 1..Len(forecast_runs) : forecast_runs[i].model_name \in BacktestModelNames

BacktestDrivers == {"sarimax", "exog", "xgb"}

\* C11: in each walk-forward backtest driver an exception of the fit or of
\* the forecast at one anchor does not abort the remaining anchors: a driver
\* that found anchors never ends, by an exception or otherwise, before its
\* loop has handled every one of them.
C11_FitErrorDoesNotAbort ==
    (bt_driver \in BacktestDrivers /\ bt_pc \in {"raised", "done"} /\ bt_anchors # <<>>)
        => Len(bt_trace) = Len(bt_anchors)

\* C11, what the drivers do: an anchor whose fit or forecast raised is the
\* last one handled, and the driver has ended with that exception
C11_FitErrorEndsDriver ==
    \A k \in 1..Len(bt_trace) :
        bt_trace[k].outcome = "raised"
            => /\ k = Len(bt_trace)
               /\ bt_pc = "raised"
               /\ bt_trace[k].run_id = Null

\* the folds of the driver now running for which a model was fitted
FittedFolds == {k \in 1..Len(bt_trace) : bt_trace[k].outcome # "skipped"}

ExogRowAt(columns, d) ==
    [j \in 1..Len(columns) |-> ValueAtDate(bt_X.data[columns[j]], d)]

C18_LiveReached ==
    /\ bt_driver = "sarimax_exog_live" /\ bt_pc = "done"
    /\ Len(bt_forecast.exog) >= 2

C19_SarimaxReached ==
    \E k \in FittedFolds : bt_driver = "sarimax" /\ bt_trace[k].run_id # Null

C19_XgbReached ==
    \E k \in FittedFolds : bt_driver = "xgb" /\ bt_trace[k].exog_index # <<>>

\* the stored target series exists and has fewer than min_train_len + horizon
\* observations
TargetTooShort ==
    LET rows == {r \in fact_timeseries :
                    /\ r.metric_id = BtTarget.metric_id
                    /\ r.geo_id = BtTarget.geo_id
                    /\ r.property_type_id = BtTarget.property_type_id}
    IN /\ rows # {}
       /\ Cardinality(rows) < DefaultMinTrainLen + bt_horizon

\* C20: on a target series that exists but is too short to backtest, every
\* backtest driver ends normally: no exception, no run, no prediction.
C20_TooShortEndsNormally ==
    (bt_driver \in BacktestDrivers /\ TargetTooShort)
        => /\ bt_pc # "raised"
           /\ forecast_runs = <<>> => forecast_predictions = <<>>
           /\ \A i \in 1..Len(forecast_runs) :
                 forecast_runs[i].model_name \notin BacktestModelNames

\* C20, what holds: the univariate driver reports 'not enough history' and
\* returns; no driver records a backtest run
C20_SarimaxTooShort ==
    (bt_driver \in BacktestDrivers /\ TargetTooShort)
        => /\ bt_driver = "sarimax" =>
                 /\ bt_pc = "returned"
                 /\ bt_msg = "Not enough history to run backtests."
           /\ bt_trace = <<>>
           /\ \A i \in 1..Len(forecast_runs) :
                 forecast_runs[i].model_name \notin BacktestModelNames

----------------------------------------------------------------------------
(* One call of a series loader on a drawn store.  fact_timeseries is        *)
(* created without a key by utils/db.py and transform/census_to_fact.py    *)
(* ("we append time series"), so a store can hold several rows of one key  *)
(* and date.                                                               *)

LoadRow(metric_id, d, v) ==
    [metric_id |-> metric_id, geo_id |-> Geo, property_type_id |-> "all",
     date |-> d, value |-> v]

\* every (month, value) row of the target key is stored or not; the other
\* key is absent or holds one observation
LoadStores ==
    {S \cup O :
        S \in SUBSET {LoadRow(TargetMetric, MonthStart(m), v) :
                         m \in 0..(LoadMonths - 1), v \in {1, 2}},
        O \in {{}, {LoadRow(ExogMetric, MonthStart(0), 7)}}}

LoadInit ==
    /\ fact_timeseries \in LoadStores
    /\ ld_pc = "call"
    /\ ld_fn \in {"load_series_from_fact", "load_series"}
    /\ ld_target \in {TargetSpec(m, Geo, pt) :
                         m \in {TargetMetric, ExogMetric}, pt \in {None, "all", "-1"}}
    /\ ld_min_obs \in IF ld_fn = "load_series" THEN 0..MaxMinObs ELSE {0}
    /\ ld_ret = None
    \* nothing else is running
    /\ ca_pc = "idle" /\ ca_variant = "none" /\ ca_n = 0 /\ ca_horizon = 0
    /\ ca_min_train_len = 0 /\ ca_max_anchors = 0 /\ ca_anchors = <<>>
    /\ dm_pc = "idle" /\ dm_target = None
    /\ dm_feature_specs = <<>> /\ dm_min_obs = 0 /\ dm_ret = None
    /\ forecast_runs = <<>> /\ forecast_predictions = <<>>
    /\ fc_pc = "idle" /\ fc_args = None /\ fc_feature_specs = <<>> /\ fc_train = None
    /\ fc_series = None /\ fc_preds = <<>> /\ fc_rows = <<>>
    /\ bt_pc = "idle" /\ bt_driver = "none" /\ bt_horizon = 0 /\ bt_y = None /\ bt_X = None
    /\ bt_anchors = <<>> /\ bt_i = 0 /\ bt_trace = <<>> /\ bt_msg = "none" /\ bt_forecast = None
    /\ ds_pc = "idle" /\ ds_target = None /\ ds_ret = <<>>
    /\ rb_run_info = [found |-> FALSE] /\ rb_refreshed = <<>> /\ rb_skipped = <<>>
    /\ bt_pending = [run_id |-> Null]
    /\ cw_pc = <<>> /\ cw_model = <<>> /\ cw_run_id = <<>>
    /\ fc_base_series = None /\ fc_shared = FALSE
    /\ bt_base_series = None /\ bt_series = [shared |-> FALSE, series |-> <<>>] /\ bt_rows = <<>>

\* the call ends: the series is returned, or ValueError is raised
LoadEnds(l) ==
    /\ ld_ret' = l
    /\ ld_pc' = IF l.error = "none" THEN "ret" ELSE "raised"
    /\ UNCHANGED <<ld_fn, ld_target, ld_min_obs>>
    /\ UNCHANGED <<anchorVars, designVars, recVars, fcVars, btVars, dsVars, rbVars, foldVars, cwVars, fcCopyVars, btCopyVars>>

\* feature_loader.load_series_from_fact(metric_id, geo_id, property_type_id)
CallLoadSeriesFromFact ==
    /\ ld_pc = "call" /\ ld_fn = "load_series_from_fact"
    /\ LoadEnds(load_series_from_fact(ld_target.metric_id, ld_target.geo_id,
                                      ld_target.property_type_id))

\* sarimax_redfin.load_series(target, min_obs)
CallLoadSeries ==
    /\ ld_pc = "call" /\ ld_fn = "load_series"
    /\ LoadEnds(load_series(ld_target, ld_min_obs))

LoadNext == CallLoadSeriesFromFact \/ CallLoadSeries

\* the stored rows of the key the call asks for
MatchingRows ==
    {r \in fact_timeseries :
        /\ r.metric_id = ld_target.metric_id
        /\ r.geo_id = ld_target.geo_id
        /\ r.property_type_id = pt_or_all(ld_target.property_type_id)}

\* C21: every series a loader returns has strictly increasing, pairwise
\* distinct dates, whatever the store holds (several rows of one key and date
\* included), and a call whose key matches no row raises instead of
\* returning an empty series.
C21_LoadedDatesStrictlyIncreasing ==
    /\ ld_pc = "ret" =>
          /\ ld_ret.series.index # <<>>
          /\ IsStrictlyIncreasing(ld_ret.series.index)
          /\ \A i, j \in 1..Len(ld_ret.series.index) :
                ld_ret.series.index[i] = ld_ret.series.index[j] => i = j
    /\ (ld_pc \in {"ret", "raised"} /\ MatchingRows = {}) => ld_pc = "raised"

\* what the loaders do keep: one entry per matching row in date order, and
\* an error when no row matches
C21_OneEntryPerRow ==
    /\ ld_pc = "ret" =>
          /\ Len(ld_ret.series.index) = Cardinality(MatchingRows)
          /\ Len(ld_ret.series.index) >= 1
          /\ \A i \in 1..(Len(ld_ret.series.index) - 1) :
                ld_ret.series.index[i] <= ld_ret.series.index[i + 1]
    /\ (ld_pc \in {"ret", "raised"} /\ MatchingRows = {}) => ld_pc = "raised"

\* two rows of the key on one date, and the loader returned
C21_DuplicateRowsLoaded ==
    /\ ld_pc = "ret"
    /\ \E r1, r2 \in MatchingRows : r1.date = r2.date /\ r1.value # r2.value

----------------------------------------------------------------------------
(* The run and prediction stores over the writers' operations *)

IsPrefixOf(s, t) == Len(s) <= Len(t) /\ SubSeq(t, 1, Len(s)) = s

\* C22: the run store and the prediction store are append-only: every step
\* of a forecast or backtest leaves each stored row in its place with all its
\* field values (is_active included), and only adds rows after them.
C22_AppendOnly ==
    [][/\ IsPrefixOf(forecast_runs, forecast_runs')
       /\ IsPrefixOf(forecast_predictions, forecast_predictions')]_vars

\* C22, witness: an active live run with its predictions, and a backtest run
\* with its predictions recorded after it
C22_Witness ==
    /\ Len(forecast_runs) >= 2
    /\ forecast_runs[1].is_active /\ ~forecast_runs[2].is_active
    /\ \E i, j \in 1..Len(forecast_predictions) :
          /\ i < j
          /\ forecast_predictions[i].run_id = forecast_runs[1].run_id
          /\ forecast_predictions[j].run_id = forecast_runs[2].run_id

----------------------------------------------------------------------------
(* run_sarimax_batch: the batch runner looks up the latest run of a target  *)
(* and refreshes its forecast or keeps it                                  *)

\* TARGETS: the configured targets (the one target the store holds, under
\* the property type the backtest drivers record)
TARGETS == <<BtTarget>>

\* get_latest_run_info: SELECT ... FROM forecast_runs r WHERE target matches
\* ORDER BY r.created_at DESC LIMIT 1.  created_at is filled by the table at
\* insertion, so the last inserted matching row is the latest.
get_latest_run_info(runs, metric_id, geo_id, property_type_id) ==
    LET pt_id == property_type_id
        hits  == {i \in 1..Len(runs) :
                     /\ runs[i].target_metric_id = metric_id
                     /\ runs[i].target_geo_id = geo_id
                     /\ \/ runs[i].target_property_type_id = None /\ pt_id = None
                        \/ runs[i].target_property_type_id = pt_id}
    IN IF hits = {} THEN [found |-> FALSE]
       ELSE [found |-> TRUE, run_id |-> runs[MaxOf(hits)].run_id, created_at |-> MaxOf(hits)]

\* should_refresh(run_info): always without a previous run; otherwise by the
\* run's age and its 3-month MAPE, which the clock and v_forecast_eval decide
should_refresh(run_info) ==
    IF run_info.found THEN BOOLEAN ELSE {TRUE}

\* python -m forecast.run_sarimax_batch: run_batch() over TARGETS
RunBatch ==
    /\ CanStart
    /\ bt_driver' = "batch"
    /\ LET t        == TARGETS[1]
           run_info == get_latest_run_info(forecast_runs, t.metric_id, t.geo_id,
                                           t.property_type_id)
       IN /\ rb_run_info' = run_info
          /\ \E refresh \in should_refresh(run_info) :
                IF refresh
                THEN /\ \E fit \in FitOutcomes :
                           SarimaxUnivariate(t, FORECAST_HORIZON, "Batch SARIMAX run", fit)
                     /\ rb_refreshed' =
                           IF bt_pc' = "done"
                           THEN <<forecast_runs'[Len(forecast_runs')].run_id>>
                           ELSE <<>>
                     /\ rb_skipped' = <<>>
                ELSE /\ rb_refreshed' = <<>>
                     /\ rb_skipped' = <<run_info.run_id>>
                     /\ bt_pc' = "done"
                     /\ bt_msg' = "Batch summary"
                     /\ bt_forecast' = NoCall
                     /\ UNCHANGED recVars
    /\ UNCHANGED <<bt_horizon, bt_y, bt_X, bt_anchors, bt_i, bt_trace>>
    /\ UNCHANGED <<anchorVars, designVars, fcVars, dsVars, ldVars, foldVars, cwVars, fcCopyVars, btCopyVars>>

\* the live forecast, the univariate backtest and the batch runner, one
\* after another
BatchNext ==
    \/ RunSarimaxForecast
    \/ SarimaxBacktestStart \/ SarimaxBacktestAnchor \/ BacktestInsertPredictions
    \/ BacktestSummary
    \/ ProcessExit
    \/ RunBatch

\* the stored run the batch runner's lookup returned
LookedUpRun ==
    forecast_runs[CHOOSE i \in 1..Len(forecast_runs) :
                      forecast_runs[i].run_id = rb_run_info.run_id]

\* C23: the run the batch runner looks up as the target's latest run is never
\* a backtest run: it is never a run with is_active = false.
C23_LatestRunIsActive ==
    (bt_driver = "batch" /\ rb_run_info.found) => LookedUpRun.is_active

\* the batch runner found a run while a backtest run of its target is stored
C23_BacktestRunStored ==
    /\ bt_driver = "batch" /\ rb_run_info.found
    /\ \E i \in 1..Len(forecast_runs) :
          /\ ~forecast_runs[i].is_active
          /\ forecast_runs[i].target_property_type_id = TARGETS[1].property_type_id

----------------------------------------------------------------------------
(* The prediction rows of a backtest run *)

\* the backtest run whose run row is written and whose prediction rows are
\* still to be inserted
PendingRunIds ==
    IF bt_pc = "insert_predictions" THEN {bt_pending.run_id} ELSE {}

\* C24: for every backtest run recorded with realized horizon h, the run row
\* is written before its prediction rows (a prediction row never carries a
\* run id without a run row, and between the two inserts the run has no
\* prediction row yet); once they are written, exactly h prediction rows
\* carry its run id, in order their horizon steps are 1, 2, ..., h and their
\* target dates fall in the h consecutive calendar months after the anchor
\* month, and none lies beyond the month of the target series' last
\* observation.
C24_BacktestPredictionRows ==
    /\ \A k \in 1..Len(forecast_predictions) :
          forecast_predictions[k].run_id \in RunIds(forecast_runs)
    /\ \A i \in 1..Len(forecast_runs) :
          LET run == forecast_runs[i]
              h   == run.horizon_max_months
              P   == PredictionsOf(run.run_id)
          IN ~run.is_active =>
                IF run.run_id \in PendingRunIds THEN P = <<>>
                ELSE /\ Len(P) = h
                     /\ \A k \in 1..Len(P) :
                           /\ P[k].horizon_steps = k
                           /\ to_period(P[k].target_date) = to_period(run.train_end) + k
                           /\ to_period(P[k].target_date) <= to_period(TargetFinalDate)

\* C24, witness: a backtest run of two months whose last prediction falls in
\* the month of the last observation, all its rows written
C24_Witness ==
    \E i \in 1..Len(forecast_runs) :
        /\ ~forecast_runs[i].is_active
        /\ forecast_runs[i].run_id \notin PendingRunIds
        /\ forecast_runs[i].horizon_max_months = 2
        /\ Len(PredictionsOf(forecast_runs[i].run_id)) = 2
        /\ to_period(forecast_runs[i].train_end) + 2 = to_period(TargetFinalDate)

\* C24, between the inserts: the run row is stored, its prediction rows not yet
C24_RunRowFirst ==
    /\ bt_pc = "insert_predictions"
    /\ bt_pending.run_id \in RunIds(forecast_runs)
    /\ PredictionsOf(bt_pending.run_id) = <<>>

----------------------------------------------------------------------------
(* The names universal discovery gives its FeatureSpecs *)

\* C25: the FeatureSpecs universal discovery produces for distinct series
\* keys have pairwise distinct names, also when an identifier contains the
\* separator "__" itself, and none of them is named "y".
C25_FeatureNamesUnique ==
    ds_pc = "ret" =>
        /\ \A i, j \in 1..Len(ds_ret) : ds_ret[i].name = ds_ret[j].name => i = j
        /\ \A i \in 1..Len(ds_ret) : ds_ret[i].name # "y"

\* what does hold: no name is "y", and the names are distinct whenever no
\* stored identifier contains the separator
C25_UniqueWithoutSeparator ==
    ds_pc = "ret" =>
        /\ \A i \in 1..Len(ds_ret) : ds_ret[i].name # "y"
        /\ (\A i \in 1..Len(ds_ret) : ds_ret[i].metric_id \in {TargetMetric, ExogMetric})
              => \A i, j \in 1..Len(ds_ret) : ds_ret[i].name = ds_ret[j].name => i = j

\* discovery returned features for two keys whose identifiers hold the separator
C25_SeparatorKeysDiscovered ==
    /\ ds_pc = "ret"
    /\ \E i, j \in 1..Len(ds_ret) :
          /\ KeyOfSpec(ds_ret[i]) = <<"permits", "dc__city", "all">>
          /\ KeyOfSpec(ds_ret[j]) = <<"permits__dc", "city", "all">>

----------------------------------------------------------------------------
(* Writers running at the same time.  Each insert_forecast_run* call opens  *)
(* its own connection, reads the next run id with one statement and        *)
(* inserts the run row with another; nothing ties the two together.        *)

Writers == 1..NumWriters

\* the recorders a writer may call: xgb_regressor.insert_forecast_run and
\* backtest_sarimax_exog_single.insert_forecast_run_backtest
WriterModels == {"xgboost", "sarimax_exog_backtest"}

\* con.execute(sql, params): the run row under the run id read before
insert_run_row(runs, run_id, model_name) ==
    Append(runs, RunRow(run_id, model_name, BtTarget, MonthStart(0), MonthStart(1),
                        1, None, model_name = "xgboost"))

ConcurrentInit ==
    /\ forecast_runs = <<>> /\ forecast_predictions = <<>>
    /\ cw_pc = [w \in Writers |-> "idle"]
    /\ cw_model = [w \in Writers |-> "none"]
    /\ cw_run_id = [w \in Writers |-> Null]
    \* nothing else is running
    /\ fact_timeseries = {}
    /\ ca_pc = "idle" /\ ca_variant = "none" /\ ca_n = 0 /\ ca_horizon = 0
    /\ ca_min_train_len = 0 /\ ca_max_anchors = 0 /\ ca_anchors = <<>>
    /\ dm_pc = "idle" /\ dm_target = None
    /\ dm_feature_specs = <<>> /\ dm_min_obs = 0 /\ dm_ret = None
    /\ fc_pc = "idle" /\ fc_args = None /\ fc_feature_specs = <<>> /\ fc_train = None
    /\ fc_series = None /\ fc_preds = <<>> /\ fc_rows = <<>>
    /\ bt_pc = "idle" /\ bt_driver = "none" /\ bt_horizon = 0 /\ bt_y = None /\ bt_X = None
    /\ bt_anchors = <<>> /\ bt_i = 0 /\ bt_trace = <<>> /\ bt_msg = "none" /\ bt_forecast = None
    /\ ds_pc = "idle" /\ ds_target = None /\ ds_ret = <<>>
    /\ ld_pc = "idle" /\ ld_fn = "none" /\ ld_target = None /\ ld_min_obs = 0 /\ ld_ret = None
    /\ rb_run_info = [found |-> FALSE] /\ rb_refreshed = <<>> /\ rb_skipped = <<>>
    /\ bt_pending = [run_id |-> Null]
    /\ fc_base_series = None /\ fc_shared = FALSE
    /\ bt_base_series = None /\ bt_series = [shared |-> FALSE, series |-> <<>>] /\ bt_rows = <<>>

\* run_id = _next_run_id(con)
ReadNextRunId(w) ==
    /\ cw_pc[w] = "idle"
    /\ Len(forecast_runs) + Cardinality({v \in Writers : cw_pc[v] = "insert"})
          < MaxConcurrentRuns
    /\ \E model_name \in WriterModels : cw_model' = [cw_model EXCEPT ![w] = model_name]
    /\ cw_run_id' = [cw_run_id EXCEPT ![w] = next_run_id(forecast_runs)]
    /\ cw_pc' = [cw_pc EXCEPT ![w] = "insert"]
    /\ UNCHANGED <<anchorVars, designVars, recVars, fcVars, btVars, dsVars, ldVars, rbVars, foldVars, fcCopyVars, btCopyVars>>

\* con.execute(sql, params); return run_id
InsertRunRow(w) ==
    /\ cw_pc[w] = "insert"
    /\ forecast_runs' = insert_run_row(forecast_runs, cw_run_id[w], cw_model[w])
    /\ cw_pc' = [cw_pc EXCEPT ![w] = "idle"]
    /\ UNCHANGED <<cw_model, cw_run_id, forecast_predictions>>
    /\ UNCHANGED <<anchorVars, designVars, fcVars, btVars, dsVars, ldVars, rbVars, foldVars, fcCopyVars, btCopyVars>>

ConcurrentNext == \E w \in Writers : ReadNextRunId(w) \/ InsertRunRow(w)

\* C26: run ids stay unique under concurrent writers: however two writers
\* interleave 'read the next run id' and 'insert the run row', no two
\* recorded runs have the same run id.
C26_RunIdsUniqueUnderConcurrency ==
    \A i, j \in 1..Len(forecast_runs) :
        forecast_runs[i].run_id = forecast_runs[j].run_id => i = j

\* what holds: a writer that reads and inserts with no other writer's insert
\* in between records a fresh id
C26_UninterruptedInsertIsFresh ==
    [][\A w \in Writers :
          (cw_pc[w] = "insert" /\ cw_pc'[w] = "idle"
               /\ cw_run_id[w] = next_run_id(forecast_runs))
            => cw_run_id[w] \notin RunIds(forecast_runs)]_vars

\* two writers both read before either inserted, and both have inserted
C26_InterleavedInserts ==
    /\ Len(forecast_runs) >= 2
    /\ \E v, w \in Writers : v # w /\ cw_run_id[v] = cw_run_id[w] /\ cw_run_id[v] # Null
    /\ \A w \in Writers : cw_pc[w] = "idle"

----------------------------------------------------------------------------
(* Claims about the iterative forecast of the XGBoost backtest and the     *)
(* copies the forecasters work on                                          *)

\* the XGBoost backtest fitted its model at the anchor handled last
XgbFitted ==
    /\ bt_driver = "xgb" /\ bt_trace # <<>>
    /\ bt_trace[Len(bt_trace)].outcome # "skipped"
    /\ bt_msg # "fit error"

\* every observation of s dated at or before d is the observation the full
\* series `base` holds at that date
AgreesUpTo(s, base, d) ==
    \A i \in 1..Len(s.index) :
        s.index[i] <= d =>
            /\ HasDate(base, s.index[i])
            /\ s.values[i] = ValueAtDate(base, s.index[i])

\* every observation of s dated after d carries the value `base` holds at the
\* last of its dates at or before d
CarriedAfter(s, base, d) ==
    \A i \in 1..Len(s.index) :
        s.index[i] > d =>
            s.values[i] = loc_upto(base, d).values[Len(loc_upto(base, d).values)]

C27_TruncatedThenNoRow ==
    XgbFitted =>
        LET e == bt_trace[Len(bt_trace)]
        IN /\ bt_rows = <<>>
           /\ bt_pc = "raised"
           /\ \A k \in DOMAIN bt_series.series :
                 /\ AgreesUpTo(bt_series.series[k], bt_base_series[k], e.anchor_date)
                 /\ CarriedAfter(bt_series.series[k], bt_base_series[k], e.anchor_date)

\* C27, reached: a model was fitted at an anchor whose base series hold a
\* later observation with a value of its own
C27_FutureValueStored ==
    /\ XgbFitted
    /\ \E k \in DOMAIN bt_base_series :
          LET base == bt_base_series[k]
              d    == bt_trace[Len(bt_trace)].anchor_date
          IN \E i \in 1..Len(base.index) :
                /\ base.index[i] > d
                /\ base.values[i] # loc_upto(base, d).values[Len(loc_upto(base, d).values)]

C28_BacktestBaseUnchanged ==
    [][(bt_driver = "xgb" /\ bt_driver' = "xgb" /\ bt_pc # "idle")
          => bt_base_series' = bt_base_series]_vars

\* C28, the backtest, reached: the forecast of an anchor has extended its
\* truncated copy by a date the copy did not hold
C28_BacktestCopyExtended ==
    /\ XgbFitted
    /\ Len(bt_series.series["y"].index)
         = Len(loc_upto(bt_base_series["y"], bt_trace[Len(bt_trace)].anchor_date).index) + 1
    /\ Len(bt_series.series["y"].index) <= Len(bt_base_series["y"].index)

----------------------------------------------------------------------------
(* Claims about the order the backtest drivers handle their anchors in *)

RecordedFolds == {k \in 1..Len(bt_trace) : bt_trace[k].run_id # Null}

\* C29: a backtest driver handles its anchors in ascending date order, one
\* after the other as choose_anchor_indices listed them, and has written the
\* run row and every prediction row of an anchor before it starts the next
\* one (a run whose prediction rows are still to be written belongs to the
\* anchor being handled, which none follows yet); so the run ids recorded in
\* one invocation strictly increase with the anchor date, and each is greater
\* than every id stored before the invocation.
C29_AnchorsInOrder ==
    bt_driver \in BacktestDrivers =>
        /\ Len(bt_trace) <= Len(bt_anchors)
        /\ \A k \in 1..Len(bt_trace) : bt_trace[k].idx = bt_anchors[k]
        /\ \A j, k \in 1..Len(bt_trace) :
              j < k => bt_trace[j].anchor_date < bt_trace[k].anchor_date
        /\ \A j, k \in RecordedFolds :
              (bt_trace[j].anchor_date < bt_trace[k].anchor_date)
                  <=> (bt_trace[j].run_id < bt_trace[k].run_id)
        /\ \A k \in RecordedFolds :
              /\ RunOf(bt_trace[k].run_id).train_end = date_of(bt_trace[k].anchor_date)
              /\ Len(PredictionsOf(bt_trace[k].run_id)) = bt_trace[k].horizon_bt
        /\ bt_pc = "insert_predictions" =>
              /\ bt_pending.fold.idx = bt_anchors[Len(bt_trace) + 1]
              /\ bt_i = Len(bt_trace)
              /\ \A k \in RecordedFolds :
                    /\ bt_trace[k].run_id < bt_pending.run_id
                    /\ bt_trace[k].anchor_date < bt_pending.fold.anchor_date
        /\ \A i \in 1..Len(forecast_runs) :
              forecast_runs[i].run_id \notin
                    ({bt_trace[k].run_id : k \in RecordedFolds} \cup PendingRunIds)
                  => \A k \in RecordedFolds : forecast_runs[i].run_id < bt_trace[k].run_id

\* C29, witness: the univariate driver, started on a store that already held
\* a run, has recorded the runs of two anchors and is between the two inserts
\* of a third anchor or past its second
C29_Witness ==
    /\ bt_driver = "sarimax"
    /\ Cardinality(RecordedFolds) >= 2
    /\ Len(forecast_runs) > Cardinality(RecordedFolds)
    /\ forecast_runs[1].is_active

\* C29, the other driver: the exogenous driver has recorded two anchors
C29_ExogReached ==
    bt_driver = "exog" /\ Cardinality(RecordedFolds) >= 2

----------------------------------------------------------------------------
(* Claims about the realized horizon on a monthly target series *)

TargetDates ==
    {r.date : r \in {x \in fact_timeseries :
                        /\ x.metric_id = BtTarget.metric_id
                        /\ x.geo_id = BtTarget.geo_id}}

\* the stored target series has one observation in each of a run of
\* consecutive calendar months
TargetMonthly ==
    LET P == {to_period(d) : d \in TargetDates}
    IN /\ TargetDates # {}
       /\ Cardinality(P) = Cardinality(TargetDates)
       /\ \A p \in P : (p - 1 \in P) \/ (\A q \in P : p <= q)

C30_TruncatedElsewhere ==
    /\ bt_driver \in BacktestDrivers /\ ~TargetMonthly
    /\ \E k \in 1..Len(bt_trace) : bt_trace[k].horizon_bt < bt_horizon

\* C30, the other drivers: the exogenous driver ended its loop on a monthly
\* series, and the XGBoost driver computed the horizon of an anchor
C30_ExogReached ==
    bt_driver = "exog" /\ TargetMonthly /\ bt_pc = "done" /\ bt_trace # <<>>

C30_XgbReached ==
    bt_driver = "xgb" /\ TargetMonthly /\ bt_trace # <<>>

----------------------------------------------------------------------------
(* Specifications *)

SpecAnchor == AnchorInit /\ [][AnchorNext]_vars

SpecDesign == DesignInit /\ [][DesignNext]_vars

SpecForecast == ForecastInit /\ [][ForecastNext]_vars

SpecDiscover == DiscoverInit /\ [][DiscoverNext]_vars

SpecFolds == FoldsInit /\ [][FoldsNext]_vars

SpecLoad == LoadInit /\ [][LoadNext]_vars

SpecBatch == Init /\ [][BatchNext]_vars

SpecConcurrent == ConcurrentInit /\ [][ConcurrentNext]_vars

Spec == Init /\ [][Next]_vars

====
